---- MODULE Spec2Model ----
(***************************************************************************)
(* A model of mcp-token-analyzer: the configuration pipeline of run(),     *)
(* the per-server connect-and-analyze unit (analyzeServer), the bounded    *)
(* fan-out of connectAndAnalyzeAll, the env resolver of pkg/config and the *)
(* mutex-protected TokenCounter of pkg/analyzer.                           *)
(***************************************************************************)
EXTENDS Integers, Sequences, FiniteSets, TLC

(***************************************************************************)
(* Bounds of the model.                                                    *)
(***************************************************************************)
MaxServers == 3
PoolServers == 11
MaxPoolAdvanced == 1
MaxCallers == 2
MaxLiveServers == 2
MaxLines == 2
MaxTokens == 2

(***************************************************************************)
(* Program constants.                                                      *)
(***************************************************************************)
maxConcurrentConnections == 10
unknownServerName == "<unknown>"
namespaceSeparator == "__"
tableLabelTotal == "TOTAL"
TransportStdio == "stdio"
TransportHTTP == "http"
TransportStreamableHTTP == "streamable-http"

(***************************************************************************)
(* Go values.  An error is a chain of wrapped messages (fmt.Errorf with    *)
(* %w prepends one) with the numbers a message may carry and, for a joined *)
(* message, its parts; the nil error is the empty chain.                   *)
(***************************************************************************)
Nil == [chain |-> <<>>, n |-> 0, m |-> 0, parts |-> {}]
NewError(msg) == [chain |-> <<msg>>, n |-> 0, m |-> 0, parts |-> {}]
NewErrorN(msg, a, b) == [chain |-> <<msg>>, n |-> a, m |-> b, parts |-> {}]
Wrap(msg, e) == [e EXCEPT !.chain = <<msg>> \o @]

EmptyMap == [k \in {} |-> 0]
MapPut(f, k, v) == [x \in (DOMAIN f) \cup {k} |-> IF x = k THEN v ELSE f[x]]
\* for k, v := range over { result[k] = v }
MapOverlay(base, over) ==
    [x \in (DOMAIN base) \cup (DOMAIN over) |->
        IF x \in DOMAIN over THEN over[x] ELSE base[x]]

SeqToSet(s) == {s[i] : i \in 1..Len(s)}

(***************************************************************************)
(* Byte-wise order of the strings that occur as names: Go's < on strings.  *)
(***************************************************************************)
StrRank(s) ==
    CASE s = "" -> 0
      [] s = "<unknown>" -> 1
      [] s = "a" -> 2
      [] s = "b" -> 3
      [] s = "c" -> 4
      [] s = "d" -> 5
      [] s = "p01" -> 11
      [] s = "p02" -> 12
      [] s = "p03" -> 13
      [] s = "p04" -> 14
      [] s = "p05" -> 15
      [] s = "p06" -> 16
      [] s = "p07" -> 17
      [] s = "p08" -> 18
      [] s = "p09" -> 19
      [] s = "p10" -> 20
      [] s = "p11" -> 21
      [] s = "p12" -> 22
      [] s = "p13" -> 23
      [] s = "zeta" -> 30
StrLess(a, b) == StrRank(a) < StrRank(b)

(***************************************************************************)
(* Paths.  A path is its list of segments and whether it is rooted; the    *)
(* empty relative path is Go's "".                                         *)
(***************************************************************************)
Path(isAbs, segments) == [abs |-> isAbs, segs |-> segments]
EmptyPath == Path(FALSE, <<>>)
IsAbs(p) == p.abs

RECURSIVE CleanSegs(_, _, _)
\* filepath.Clean on the segments: "." is dropped, ".." removes the segment
\* before it, a ".." at the root is dropped and a leading ".." of a relative
\* path is kept.
CleanSegs(segments, acc, isAbs) ==
    IF segments = <<>> THEN acc
    ELSE LET h == Head(segments)
             t == Tail(segments)
         IN  IF h = "." THEN CleanSegs(t, acc, isAbs)
             ELSE IF h = ".."
                  THEN IF acc # <<>> /\ acc[Len(acc)] # ".."
                       THEN CleanSegs(t, SubSeq(acc, 1, Len(acc) - 1), isAbs)
                       ELSE IF isAbs THEN CleanSegs(t, acc, isAbs)
                            ELSE CleanSegs(t, Append(acc, h), isAbs)
                  ELSE CleanSegs(t, Append(acc, h), isAbs)
Clean(p) == Path(p.abs, CleanSegs(p.segs, <<>>, p.abs))

\* filepath.Join(a, b): empty elements are ignored, the rest is joined and cleaned.
Join(a, b) ==
    IF a = EmptyPath THEN Clean(b)
    ELSE IF b = EmptyPath THEN Clean(a)
    ELSE Clean(Path(a.abs, a.segs \o b.segs))

IsPrefix(s, t) == Len(s) <= Len(t) /\ SubSeq(t, 1, Len(s)) = s

(***************************************************************************)
(* The file system the process runs in: the working directory and the env  *)
(* files.  A file is its list of lines, a line its list of characters.     *)
(***************************************************************************)
Cwd == <<"work">>
Files ==
    (<<"cfg", ".env">> :> << <<"F", "=", "f">>, <<"S", "=", "x">> >>) @@
    (<<"cfg", "subdir", "app.env">> :> << <<"#", "c">>, <<"N", "=", "\"", "n", "\"">> >>) @@
    (<<"cfg", "bad.env">> :> << <<>>, <<"N", "O">> >>) @@
    (<<"ext", "external.env">> :> << <<"A", "=", "a">> >>) @@
    (<<"etc", "shadow">> :> << <<"r", ":", "x">> >>) @@
    (<<"work", ".env">> :> << <<" ", "W", " ", "=", " ", "w">> >>)
\* the absolute location a path names when the process opens it
Locate(p) == IF p.abs THEN Clean(p).segs ELSE CleanSegs(Cwd \o p.segs, <<>>, TRUE)

(***************************************************************************)
(* pkg/config: LoadEnvFile.                                                *)
(***************************************************************************)
IsSpace(ch) == ch \in {" ", "\t"}

RECURSIVE TrimLeft(_)
TrimLeft(s) == IF s # <<>> /\ IsSpace(Head(s)) THEN TrimLeft(Tail(s)) ELSE s
RECURSIVE TrimRight(_)
TrimRight(s) ==
    IF s # <<>> /\ IsSpace(s[Len(s)]) THEN TrimRight(SubSeq(s, 1, Len(s) - 1)) ELSE s
\* strings.TrimSpace
TrimSpace(s) == TrimRight(TrimLeft(s))

\* strings.Index(line, "="): the first position of ch, 0 when there is none
\* (Go's -1; positions count from 1 here).
Index(s, ch) ==
    IF \E i \in 1..Len(s) : s[i] = ch
    THEN CHOOSE i \in 1..Len(s) : s[i] = ch /\ \A j \in 1..(i - 1) : s[j] # ch
    ELSE 0

\* a quote stripping that does not compare the two quote characters
StripQuotesUnmatched(value) ==
    IF Len(value) >= 2
       /\ value[1] \in {"\"", "'"} /\ value[Len(value)] \in {"\"", "'"}
    THEN SubSeq(value, 2, Len(value) - 1)
    ELSE value

\* the quote stripping of LoadEnvFile
StripQuotes(value) ==
    IF Len(value) >= 2
       /\ \/ (value[1] = "\"" /\ value[Len(value)] = "\"")
          \/ (value[1] = "'" /\ value[Len(value)] = "'")
    THEN SubSeq(value, 2, Len(value) - 1)
    ELSE value

RECURSIVE ScanLines(_, _, _)
\* the scanner loop of LoadEnvFile over the lines that are left
ScanLines(lines, lineNum, result) ==
    IF lines = <<>> THEN [vars |-> result, err |-> Nil]
    ELSE LET num == lineNum + 1
             line == TrimSpace(Head(lines))
         IN  IF line = <<>> \/ line[1] = "#"
             THEN ScanLines(Tail(lines), num, result)
             ELSE LET idx == Index(line, "=")
                  IN  IF idx = 0
                      THEN [vars |-> EmptyMap,
                            err |-> NewErrorN("line %d: invalid format (missing '=')", num, 0)]
                      ELSE LET key == TrimSpace(SubSeq(line, 1, idx - 1))
                               value == StripQuotes(TrimSpace(SubSeq(line, idx + 1, Len(line))))
                           IN  IF key = <<>>
                               THEN [vars |-> EmptyMap,
                                     err |-> NewErrorN("line %d: empty key", num, 0)]
                               ELSE ScanLines(Tail(lines), num, MapPut(result, key, value))

LoadEnvFile(path) ==
    IF Locate(path) \notin DOMAIN Files
    THEN [vars |-> EmptyMap, err |-> NewError("failed to open env file")]
    ELSE ScanLines(Files[Locate(path)], 0, EmptyMap)

(***************************************************************************)
(* pkg/config: ServerConfig and Config.  A nil *ServerConfig is the record *)
(* with isNil set; EnvFile "" is the empty path.                           *)
(***************************************************************************)
NoAuth == [present |-> FALSE, ClientID |-> "", ClientSecret |-> ""]
NoTLS == [present |-> FALSE, InsecureSkipVerify |-> FALSE, CACertFile |-> "",
          ClientCertFile |-> "", ClientKeyFile |-> ""]
ServerConfig(name, type, command, args, url, env, envFile) ==
    [isNil |-> FALSE, Name |-> name, Type |-> type, Command |-> command,
     Args |-> args, URL |-> url, Headers |-> EmptyMap, Env |-> env,
     EnvFile |-> envFile, Auth |-> NoAuth, TLS |-> NoTLS]
NilServer == [ServerConfig("", "", "", <<>>, "", EmptyMap, EmptyPath) EXCEPT !.isNil = TRUE]

Config(mcpServers, servers) == [MCPServers |-> mcpServers, Servers |-> servers]

\* ResolveServerEnv; opened lists the files it asked the system to open.
\* an env resolution in which the file wins over the inline map
ResolveServerEnvFileWins(srv, configDir) ==
    IF srv.EnvFile # EmptyPath
    THEN LET envPath == IF ~IsAbs(srv.EnvFile) THEN Join(configDir, srv.EnvFile)
                        ELSE srv.EnvFile
             loaded == LoadEnvFile(envPath)
         IN  IF loaded.err # Nil
             THEN [env |-> EmptyMap, err |-> Wrap("failed to load envFile %q", loaded.err),
                   opened |-> <<Locate(envPath)>>]
             ELSE [env |-> MapOverlay(srv.Env, loaded.vars), err |-> Nil,
                   opened |-> <<Locate(envPath)>>]
    ELSE [env |-> MapOverlay(EmptyMap, srv.Env), err |-> Nil, opened |-> <<>>]

ResolveServerEnv(srv, configDir) ==
    IF srv.EnvFile # EmptyPath
    THEN LET envPath == IF ~IsAbs(srv.EnvFile) THEN Join(configDir, srv.EnvFile)
                        ELSE srv.EnvFile
             loaded == LoadEnvFile(envPath)
         IN  IF loaded.err # Nil
             THEN [env |-> EmptyMap, err |-> Wrap("failed to load envFile %q", loaded.err),
                   opened |-> <<Locate(envPath)>>]
             ELSE [env |-> MapOverlay(loaded.vars, srv.Env), err |-> Nil,
                   opened |-> <<Locate(envPath)>>]
    ELSE [env |-> MapOverlay(EmptyMap, srv.Env), err |-> Nil, opened |-> <<>>]

\* a merge in which the VS Code entry wins
GetServersReversed(c) == MapOverlay(c.MCPServers, c.Servers)

\* Config.GetServers: the VS Code map overlaid by the Claude/Cursor map
GetServers(c) == MapOverlay(c.Servers, c.MCPServers)

\* the body of the loop of InferDefaults, on one server
\* an inference that writes the alias for a server with a URL
InferServerAlias(srv) ==
    IF srv.isNil THEN srv
    ELSE LET s1 == IF srv.Type = TransportStreamableHTTP
                   THEN [srv EXCEPT !.Type = TransportHTTP] ELSE srv
         IN  IF s1.Type = ""
             THEN IF s1.Command # "" THEN [s1 EXCEPT !.Type = TransportStdio]
                  ELSE IF s1.URL # "" THEN [s1 EXCEPT !.Type = TransportStreamableHTTP]
                  ELSE s1
             ELSE s1

\* an inference that looks at the URL before the command
InferServerURLFirst(srv) ==
    IF srv.isNil THEN srv
    ELSE LET s1 == IF srv.Type = TransportStreamableHTTP
                   THEN [srv EXCEPT !.Type = TransportHTTP] ELSE srv
         IN  IF s1.Type = ""
             THEN IF s1.URL # "" THEN [s1 EXCEPT !.Type = TransportHTTP]
                  ELSE IF s1.Command # "" THEN [s1 EXCEPT !.Type = TransportStdio]
                  ELSE s1
             ELSE s1

InferServer(srv) ==
    IF srv.isNil THEN srv
    ELSE LET s1 == IF srv.Type = TransportStreamableHTTP
                   THEN [srv EXCEPT !.Type = TransportHTTP] ELSE srv
         IN  IF s1.Type = ""
             THEN IF s1.Command # "" THEN [s1 EXCEPT !.Type = TransportStdio]
                  ELSE IF s1.URL # "" THEN [s1 EXCEPT !.Type = TransportHTTP]
                  ELSE s1
             ELSE s1

\* Config.InferDefaults: the servers are reached through the pointers of
\* GetServers, so an entry of Servers shadowed by MCPServers is not touched.
InferDefaults(c) ==
    Config([k \in DOMAIN c.MCPServers |-> InferServer(c.MCPServers[k])],
           [k \in DOMAIN c.Servers |->
               IF k \in DOMAIN c.MCPServers THEN c.Servers[k]
               ELSE InferServer(c.Servers[k])])

\* url.Parse on the URLs that occur: error, scheme and host
ParseURL(rawURL) ==
    CASE rawURL = "http://localhost:9/mcp" -> [err |-> Nil, Scheme |-> "http", Host |-> "localhost:9"]
      [] rawURL = "https://api.example.com/mcp" -> [err |-> Nil, Scheme |-> "https", Host |-> "api.example.com"]
      [] rawURL = "localhost:3000/mcp" -> [err |-> Nil, Scheme |-> "localhost", Host |-> ""]
      [] rawURL = "ftp://files.example.com/mcp" -> [err |-> Nil, Scheme |-> "ftp", Host |-> "files.example.com"]
      [] rawURL = "ws://localhost:3000/mcp" -> [err |-> Nil, Scheme |-> "ws", Host |-> "localhost:3000"]
      [] rawURL = "http:///mcp" -> [err |-> Nil, Scheme |-> "http", Host |-> ""]
      [] rawURL = "/mcp" -> [err |-> Nil, Scheme |-> "", Host |-> ""]
      [] rawURL = "://mcp" -> [err |-> NewError("missing protocol scheme"), Scheme |-> "", Host |-> ""]

\* a validateURL that looks at the scheme only
validateURLSchemeOnly(rawURL) ==
    LET parsed == ParseURL(rawURL)
    IN  IF parsed.err # Nil THEN Wrap("malformed URL", parsed.err)
        ELSE IF parsed.Scheme # "http" /\ parsed.Scheme # "https"
             THEN NewError("unsupported scheme %q (must be http or https)")
        ELSE Nil

validateURL(rawURL) ==
    LET parsed == ParseURL(rawURL)
    IN  IF parsed.err # Nil THEN Wrap("malformed URL", parsed.err)
        ELSE IF parsed.Scheme # "http" /\ parsed.Scheme # "https"
             THEN NewError("unsupported scheme %q (must be http or https)")
        ELSE IF parsed.Host = "" THEN NewError("missing host")
        ELSE Nil

\* a switch without the default case: a transport it does not know passes
ValidateServerKnownOnly(srv) ==
    IF srv.isNil THEN {"nil configuration"}
    ELSE CASE srv.Type = TransportStdio ->
                  IF srv.Command = "" THEN {"stdio transport requires 'command' field"} ELSE {}
           [] srv.Type = TransportHTTP ->
                  IF srv.URL = "" THEN {"http transport requires 'url' field"}
                  ELSE IF validateURL(srv.URL) # Nil THEN {"invalid url"}
                  ELSE {}
           [] srv.Type = "" -> {"cannot infer transport type (need 'command' or 'url')"}
           [] OTHER -> {}

\* the messages Validate collects for one server (none when it is valid)
ValidateServer(srv) ==
    IF srv.isNil THEN {"nil configuration"}
    ELSE CASE srv.Type = TransportStdio ->
                  IF srv.Command = "" THEN {"stdio transport requires 'command' field"} ELSE {}
           [] srv.Type = TransportHTTP ->
                  IF srv.URL = "" THEN {"http transport requires 'url' field"}
                  ELSE IF validateURL(srv.URL) # Nil THEN {"invalid url"}
                  ELSE {}
           [] srv.Type = "" -> {"cannot infer transport type (need 'command' or 'url')"}
           [] OTHER -> {"unknown transport type %q"}

\* a Validate that returns at the first server it refuses
ValidateFirstOnly(c) ==
    LET servers == GetServers(c)
        bad == {k \in DOMAIN servers : ValidateServer(servers[k]) # {}}
        first == CHOOSE k \in bad : \A j \in bad : ~StrLess(j, k)
    IN  IF DOMAIN servers = {} THEN NewError("no servers defined in configuration")
        ELSE IF bad # {}
             THEN [NewError("joined") EXCEPT
                      !.parts = {<<first, msg>> : msg \in ValidateServer(servers[first])}]
        ELSE Nil

\* Config.Validate: the joined message is kept as the set of its parts
Validate(c) ==
    LET servers == GetServers(c)
        errs == {<<name, msg>> \in (DOMAIN servers) \X
                    {"nil configuration", "stdio transport requires 'command' field",
                     "http transport requires 'url' field", "invalid url",
                     "cannot infer transport type (need 'command' or 'url')",
                     "unknown transport type %q"} :
                    msg \in ValidateServer(servers[name])}
    IN  IF DOMAIN servers = {} THEN NewError("no servers defined in configuration")
        ELSE IF errs # {} THEN [NewError("joined") EXCEPT !.parts = errs]
        ELSE Nil

\* Config.Warnings: the messages, as <<server, message>> pairs
\* warnings that stop at the OAuth message of a server
WarningsOAuthFirst(c) ==
    LET servers == GetServers(c)
        oauth == {k \in DOMAIN servers :
                    /\ ~servers[k].isNil
                    /\ servers[k].Auth.present
                    /\ (servers[k].Auth.ClientID # "" \/ servers[k].Auth.ClientSecret # "")}
    IN  {<<name, "OAuth auth config present but not yet implemented (ignored)">> : name \in oauth}
        \cup
        {<<name, "TLS config present but not yet implemented (ignored)">> :
            name \in {k \in (DOMAIN servers) \ oauth :
                        /\ ~servers[k].isNil
                        /\ servers[k].TLS.present
                        /\ \/ servers[k].TLS.InsecureSkipVerify
                           \/ servers[k].TLS.CACertFile # ""
                           \/ servers[k].TLS.ClientCertFile # ""
                           \/ servers[k].TLS.ClientKeyFile # ""}}

Warnings(c) ==
    LET servers == GetServers(c)
    IN  {<<name, "OAuth auth config present but not yet implemented (ignored)">> :
            name \in {k \in DOMAIN servers :
                        /\ ~servers[k].isNil
                        /\ servers[k].Auth.present
                        /\ (servers[k].Auth.ClientID # "" \/ servers[k].Auth.ClientSecret # "")}}
        \cup
        {<<name, "TLS config present but not yet implemented (ignored)">> :
            name \in {k \in DOMAIN servers :
                        /\ ~servers[k].isNil
                        /\ servers[k].TLS.present
                        /\ \/ servers[k].TLS.InsecureSkipVerify
                           \/ servers[k].TLS.CACertFile # ""
                           \/ servers[k].TLS.ClientCertFile # ""
                           \/ servers[k].TLS.ClientKeyFile # ""}}

(***************************************************************************)
(* pkg/analyzer: the token statistics and their accumulation.              *)
(***************************************************************************)
\* the underlying encoder, run alone: the number of tokens of a text
Encode(text) == Len(text)

ToolTokens(name, nameT, descT, schemaT, outT, annT, totalT) ==
    [Name |-> name, NameTokens |-> nameT, DescTokens |-> descT, SchemaTokens |-> schemaT,
     OutputSchemaTokens |-> outT, AnnotationsTokens |-> annT, TotalTokens |-> totalT]
PromptTokens(name, nameT, descT, argsT, totalT) ==
    [Name |-> name, NameTokens |-> nameT, DescTokens |-> descT, ArgsTokens |-> argsT,
     TotalTokens |-> totalT]
ResourceTokens(name, nameT, uriT, descT, totalT) ==
    [Name |-> name, NameTokens |-> nameT, URITokens |-> uriT, DescTokens |-> descT,
     TotalTokens |-> totalT]

\* an accumulation that forgets the annotations
ToolTokensAddNoAnnotations(t, other) ==
    [t EXCEPT !.NameTokens = @ + other.NameTokens,
              !.DescTokens = @ + other.DescTokens,
              !.SchemaTokens = @ + other.SchemaTokens,
              !.OutputSchemaTokens = @ + other.OutputSchemaTokens,
              !.TotalTokens = @ + other.TotalTokens]

ToolTokensAdd(t, other) ==
    [t EXCEPT !.NameTokens = @ + other.NameTokens,
              !.DescTokens = @ + other.DescTokens,
              !.SchemaTokens = @ + other.SchemaTokens,
              !.OutputSchemaTokens = @ + other.OutputSchemaTokens,
              !.AnnotationsTokens = @ + other.AnnotationsTokens,
              !.TotalTokens = @ + other.TotalTokens]
PromptTokensAdd(t, other) ==
    [t EXCEPT !.NameTokens = @ + other.NameTokens,
              !.DescTokens = @ + other.DescTokens,
              !.ArgsTokens = @ + other.ArgsTokens,
              !.TotalTokens = @ + other.TotalTokens]
ResourceTokensAdd(t, other) ==
    [t EXCEPT !.NameTokens = @ + other.NameTokens,
              !.URITokens = @ + other.URITokens,
              !.DescTokens = @ + other.DescTokens,
              !.TotalTokens = @ + other.TotalTokens]

\* TokenCounter.CountTokens as one step (its locking is modelled by the
\* counter processes below)
CountTokens(text) == Encode(text)

(***************************************************************************)
(* The artifacts a server declares.  A schema is its JSON text; marshalOK  *)
(* tells whether json.Marshal of it succeeds; a nil schema is absent.      *)
(***************************************************************************)
Schema(isPresent, ok, text) == [present |-> isPresent, marshalOK |-> ok, text |-> text]
NoSchema == Schema(FALSE, TRUE, "null")
Tool(name, desc, input, output, annotations) ==
    [Name |-> name, Description |-> desc, InputSchema |-> input,
     OutputSchema |-> output, Annotations |-> annotations]
Prompt(name, desc, arguments) == [Name |-> name, Description |-> desc, Arguments |-> arguments]
Resource(name, uri, desc) == [Name |-> name, URI |-> uri, Description |-> desc]

AnalyzeTool(tool) ==
    IF ~tool.InputSchema.marshalOK
    THEN [stats |-> ToolTokens("", 0, 0, 0, 0, 0, 0),
          err |-> Wrap("failed to marshal input schema", NewError("json"))]
    ELSE IF tool.OutputSchema.present /\ ~tool.OutputSchema.marshalOK
    THEN [stats |-> ToolTokens("", 0, 0, 0, 0, 0, 0),
          err |-> Wrap("failed to marshal output schema", NewError("json"))]
    ELSE IF tool.Annotations.present /\ ~tool.Annotations.marshalOK
    THEN [stats |-> ToolTokens("", 0, 0, 0, 0, 0, 0),
          err |-> Wrap("failed to marshal annotations", NewError("json"))]
    ELSE LET nameTokens == CountTokens(tool.Name)
             descTokens == CountTokens(tool.Description)
             schemaTokens == CountTokens(tool.InputSchema.text)
             outputSchemaTokens == IF tool.OutputSchema.present
                                   THEN CountTokens(tool.OutputSchema.text) ELSE 0
             annotationsTokens == IF tool.Annotations.present
                                  THEN CountTokens(tool.Annotations.text) ELSE 0
         IN  [stats |-> ToolTokens(tool.Name, nameTokens, descTokens, schemaTokens,
                                   outputSchemaTokens, annotationsTokens,
                                   nameTokens + descTokens + schemaTokens
                                   + outputSchemaTokens + annotationsTokens),
              err |-> Nil]

AnalyzePrompt(prompt) ==
    IF ~prompt.Arguments.marshalOK
    THEN [stats |-> PromptTokens("", 0, 0, 0, 0),
          err |-> Wrap("failed to marshal prompt arguments", NewError("json"))]
    ELSE LET nameTokens == CountTokens(prompt.Name)
             descTokens == CountTokens(prompt.Description)
             argsTokens == CountTokens(prompt.Arguments.text)
         IN  [stats |-> PromptTokens(prompt.Name, nameTokens, descTokens, argsTokens,
                                     nameTokens + descTokens + argsTokens),
              err |-> Nil]

AnalyzeResource(resource) ==
    LET nameTokens == CountTokens(resource.Name)
        uriTokens == CountTokens(resource.URI)
        descTokens == CountTokens(resource.Description)
    IN  [stats |-> ResourceTokens(resource.Name, nameTokens, uriTokens, descTokens,
                                  nameTokens + uriTokens + descTokens),
         err |-> Nil]

\* a resource template is the same record, its URI field holding URITemplate
AnalyzeResourceTemplate(template) == AnalyzeResource(template)

(***************************************************************************)
(* cmd/mcp-token-analyzer: the analysis of one connected server.  A        *)
(* listing is [err, items]: the response of one List call.                 *)
(***************************************************************************)
Listing(failed, items) == [err |-> failed, items |-> items]

\* serverInfo is [present, Name]; present = FALSE is the nil pointer
resolveServerName(configuredName, serverInfo) ==
    IF configuredName # "" THEN configuredName
    ELSE IF serverInfo.present THEN serverInfo.Name
    ELSE unknownServerName

RECURSIVE ToolLoop(_, _, _)
\* the loop of analyzeTools over the tools that are left
ToolLoop(items, stats, total) ==
    IF items = <<>> THEN [stats |-> stats, total |-> total]
    ELSE LET r == AnalyzeTool(Head(items))
         IN  IF r.err # Nil THEN ToolLoop(Tail(items), stats, total)
             ELSE ToolLoop(Tail(items), Append(stats, r.stats), ToolTokensAdd(total, r.stats))

\* an analyzeTools that gives up the category when one tool fails
analyzeToolsAbort(session) ==
    LET total == ToolTokens(tableLabelTotal, 0, 0, 0, 0, 0, 0)
    IN  IF session.tools.err THEN [stats |-> <<>>, total |-> total]
        ELSE IF \E i \in 1..Len(session.tools.items) :
                    AnalyzeTool(session.tools.items[i]).err # Nil
             THEN [stats |-> <<>>, total |-> total]
        ELSE ToolLoop(session.tools.items, <<>>, total)

analyzeTools(session) ==
    LET total == ToolTokens(tableLabelTotal, 0, 0, 0, 0, 0, 0)
    IN  IF session.tools.err THEN [stats |-> <<>>, total |-> total]
        ELSE ToolLoop(session.tools.items, <<>>, total)

RECURSIVE PromptLoop(_, _, _)
PromptLoop(items, stats, total) ==
    IF items = <<>> THEN [stats |-> stats, total |-> total]
    ELSE LET r == AnalyzePrompt(Head(items))
         IN  IF r.err # Nil THEN PromptLoop(Tail(items), stats, total)
             ELSE PromptLoop(Tail(items), Append(stats, r.stats), PromptTokensAdd(total, r.stats))

analyzePrompts(session) ==
    LET total == PromptTokens(tableLabelTotal, 0, 0, 0, 0)
    IN  IF session.prompts.err THEN [stats |-> <<>>, total |-> total]
        ELSE PromptLoop(session.prompts.items, <<>>, total)

RECURSIVE ResourceLoop(_, _, _)
\* the two loops of analyzeResources share their body
ResourceLoop(items, stats, total) ==
    IF items = <<>> THEN [stats |-> stats, total |-> total]
    ELSE LET r == AnalyzeResource(Head(items))
         IN  IF r.err # Nil THEN ResourceLoop(Tail(items), stats, total)
             ELSE ResourceLoop(Tail(items), Append(stats, r.stats),
                               ResourceTokensAdd(total, r.stats))

analyzeResources(session) ==
    LET total == ResourceTokens(tableLabelTotal, 0, 0, 0, 0)
    IN  IF session.resources.err THEN [stats |-> <<>>, total |-> total]
        ELSE LET first == ResourceLoop(session.resources.items, <<>>, total)
             IN  IF session.templates.err THEN first
                 ELSE ResourceLoop(session.templates.items, first.stats, first.total)

ServerResult(name, err) ==
    [Name |-> name, Error |-> err, InstructionTokens |-> 0,
     TotalToolTokens |-> ToolTokens("", 0, 0, 0, 0, 0, 0),
     TotalPromptTokens |-> PromptTokens("", 0, 0, 0, 0),
     TotalResourceTokens |-> ResourceTokens("", 0, 0, 0, 0),
     ToolStats |-> <<>>, PromptStats |-> <<>>, ResourceStats |-> <<>>]

\* analyzeClient without the return of its nil check: the error is set and
\* the analysis goes on
analyzeClientNoReturn(clientName, session) ==
    LET tools == analyzeTools(session)
        prompts == analyzePrompts(session)
        resources == analyzeResources(session)
    IN  [Name |-> resolveServerName(clientName, session.ServerInfo),
         Error |-> IF session.init THEN Nil ELSE NewError("MCP session not initialized"),
         InstructionTokens |-> CountTokens(session.Instructions),
         TotalToolTokens |-> tools.total,
         TotalPromptTokens |-> prompts.total,
         TotalResourceTokens |-> resources.total,
         ToolStats |-> tools.stats,
         PromptStats |-> prompts.stats,
         ResourceStats |-> resources.stats]

\* analyzeClient on a session; clientName is Client.Name; session.init tells
\* whether InitializeResult() is non-nil
analyzeClient(clientName, session) ==
    IF ~session.init
    THEN ServerResult(resolveServerName(clientName, [present |-> FALSE, Name |-> ""]),
                      NewError("MCP session not initialized"))
    ELSE LET tools == analyzeTools(session)
             prompts == analyzePrompts(session)
             resources == analyzeResources(session)
         IN  [Name |-> resolveServerName(clientName, session.ServerInfo),
              Error |-> Nil,
              InstructionTokens |-> CountTokens(session.Instructions),
              TotalToolTokens |-> tools.total,
              TotalPromptTokens |-> prompts.total,
              TotalResourceTokens |-> resources.total,
              ToolStats |-> tools.stats,
              PromptStats |-> prompts.stats,
              ResourceStats |-> resources.stats]

\* calls that go on to the listings although there is no initialize result
SessionCallsNoReturn(session) ==
    <<"InitializeResult", "ListTools", "ListPrompts", "ListResources">>
    \o (IF session.resources.err THEN <<>> ELSE <<"ListResourceTemplates">>)

\* the calls analyzeClient and the three analyze functions make on the
\* session, in order
SessionCalls(session) ==
    IF ~session.init THEN <<"InitializeResult">>
    ELSE <<"InitializeResult", "ListTools", "ListPrompts", "ListResources">>
         \o (IF session.resources.err THEN <<>> ELSE <<"ListResourceTemplates">>)

(***************************************************************************)
(* The environment of a run: the config files on disk and the servers      *)
(* behind the configured names.                                            *)
(***************************************************************************)
SrvStdio == ServerConfig("", "", "echo", <<"hi">>, "", EmptyMap, EmptyPath)
SrvHTTP == ServerConfig("", "", "", <<>>, "http://localhost:9/mcp", EmptyMap, EmptyPath)
SrvStream == ServerConfig("", TransportStreamableHTTP, "", <<>>,
                          "https://api.example.com/mcp", EmptyMap, EmptyPath)
SrvEnv == ServerConfig("", "", "echo", <<>>, "", (<<"S">> :> <<"y">>),
                       Path(FALSE, <<".env">>))
SrvEnvMissing == ServerConfig("", "", "echo", <<>>, "", EmptyMap,
                              Path(FALSE, <<"missing.env">>))
SrvEnvEscape == ServerConfig("", "", "echo", <<>>, "", EmptyMap,
                             Path(FALSE, <<"..", "etc", "shadow">>))
SrvBad == ServerConfig("", "", "", <<>>, "", EmptyMap, EmptyPath)
SrvFtp == ServerConfig("", TransportHTTP, "", <<>>, "ftp://files.example.com/mcp",
                       EmptyMap, EmptyPath)

PoolKeys == <<"p01", "p02", "p03", "p04", "p05", "p06", "p07", "p08", "p09", "p10",
              "p11", "p12", "p13">>
PoolFile == <<"cfg", "pool.json">>

\* the decoded JSON of a config file; valid = FALSE is a malformed payload
ConfigFiles ==
    (<<"cfg", "two.json">> :>
        [valid |-> TRUE,
         cfg |-> Config(("a" :> SrvStdio) @@ ("b" :> SrvHTTP), EmptyMap)]) @@
    (<<"cfg", "three.json">> :>
        [valid |-> TRUE,
         cfg |-> Config(("a" :> SrvEnv), ("b" :> SrvStream) @@ ("c" :> SrvEnvMissing))]) @@
    (<<"cfg", "one.json">> :>
        [valid |-> TRUE, cfg |-> Config(("a" :> SrvEnv), EmptyMap)]) @@
    (<<"cfg", "empty.json">> :>
        [valid |-> TRUE, cfg |-> Config(EmptyMap, EmptyMap)]) @@
    (<<"cfg", "invalid.json">> :>
        [valid |-> TRUE,
         cfg |-> Config(("a" :> SrvBad) @@ ("b" :> SrvFtp), ("c" :> NilServer))]) @@
    (<<"cfg", "malformed.json">> :>
        [valid |-> FALSE, cfg |-> Config(EmptyMap, EmptyMap)]) @@
    (<<"cfg", "anon.json">> :>
        [valid |-> TRUE,
         cfg |-> Config(("" :> SrvHTTP) @@ ("b" :> SrvEnvEscape), EmptyMap)]) @@
    (<<"cfg", "shadow.json">> :>
        [valid |-> TRUE,
         cfg |-> Config(("a" :> SrvStdio), ("a" :> SrvBad) @@ ("b" :> SrvHTTP))]) @@
    (<<"cfg", "four.json">> :>
        [valid |-> TRUE,
         cfg |-> Config(("a" :> SrvStdio) @@ ("b" :> SrvHTTP),
                        ("c" :> SrvEnvMissing) @@ ("d" :> SrvEnvMissing))]) @@
    (PoolFile :>
        [valid |-> TRUE,
         cfg |-> Config([k \in {PoolKeys[i] : i \in 1..PoolServers} |-> SrvStdio], EmptyMap)])

ToolOK == Tool("t1", "adds", Schema(TRUE, TRUE, "{}"), NoSchema, NoSchema)
ToolRich == Tool("t3", "", Schema(TRUE, TRUE, "{\"a\":1}"), Schema(TRUE, TRUE, "{}"),
                 Schema(TRUE, TRUE, "{\"ro\":true}"))
ToolBroken == Tool("t2", "x", Schema(TRUE, FALSE, ""), NoSchema, NoSchema)
PromptOK == Prompt("p1", "asks", Schema(TRUE, TRUE, "[]"))
PromptBroken == Prompt("p2", "", Schema(TRUE, FALSE, ""))
ResourceOK == Resource("r1", "file:///r", "a file")
TemplateOK == Resource("rt", "file:///{x}", "")

\* what the server behind a configured name answers
World(key) ==
    CASE key = "a" ->
             [ServerInfo |-> [present |-> TRUE, Name |-> "zeta"], Instructions |-> "be nice",
              tools |-> Listing(FALSE, <<ToolOK, ToolBroken, ToolRich>>),
              prompts |-> Listing(TRUE, <<>>),
              resources |-> Listing(FALSE, <<ResourceOK>>),
              templates |-> Listing(FALSE, <<TemplateOK>>)]
      [] key = "b" ->
             [ServerInfo |-> [present |-> TRUE, Name |-> ""], Instructions |-> "",
              tools |-> Listing(FALSE, <<>>),
              prompts |-> Listing(FALSE, <<PromptBroken, PromptOK>>),
              resources |-> Listing(FALSE, <<ResourceOK>>),
              templates |-> Listing(TRUE, <<>>)]
      [] key = "c" ->
             [ServerInfo |-> [present |-> FALSE, Name |-> ""], Instructions |-> "c",
              tools |-> Listing(FALSE, <<ToolRich>>),
              prompts |-> Listing(FALSE, <<PromptOK>>),
              resources |-> Listing(FALSE, <<ResourceOK, ResourceOK>>),
              templates |-> Listing(TRUE, <<>>)]
      [] OTHER ->
             [ServerInfo |-> [present |-> TRUE, Name |-> "zeta"], Instructions |-> "hello",
              tools |-> Listing(FALSE, <<ToolOK>>),
              prompts |-> Listing(FALSE, <<>>),
              resources |-> Listing(FALSE, <<>>),
              templates |-> Listing(FALSE, <<>>)]

\* what connecting can come to: the connection fails, the session has no
\* initialize result, every listing fails on the session, or all is answered
ConnectOutcomes == {"connfail", "noinit", "listfail", "ok"}

\* the session a connection with the given outcome hands to analyzeClient
Session(key, o) ==
    LET w == World(key)
    IN  [init |-> o # "noinit", ServerInfo |-> w.ServerInfo, Instructions |-> w.Instructions,
         tools |-> IF o = "listfail" THEN Listing(TRUE, <<>>) ELSE w.tools,
         prompts |-> IF o = "listfail" THEN Listing(TRUE, <<>>) ELSE w.prompts,
         resources |-> IF o = "listfail" THEN Listing(TRUE, <<>>) ELSE w.resources,
         templates |-> IF o = "listfail" THEN Listing(TRUE, <<>>) ELSE w.templates]

(***************************************************************************)
(* pkg/mcpclient and pkg/config: functions of the run pipeline.            *)
(***************************************************************************)
\* filepath.Dir
Dir(p) ==
    LET d == SubSeq(p.segs, 1, Len(p.segs) - 1)
    IN  IF d = <<>> /\ ~p.abs THEN Path(FALSE, <<".">>) ELSE Path(p.abs, d)

\* ParseConfig on a decoded payload: the names are set from the map keys
ParseConfig(file) ==
    IF ~file.valid
    THEN [cfg |-> Config(EmptyMap, EmptyMap),
          err |-> Wrap("failed to parse config JSON", NewError("json"))]
    ELSE [cfg |-> Config([k \in DOMAIN file.cfg.MCPServers |->
                             IF file.cfg.MCPServers[k].isNil THEN file.cfg.MCPServers[k]
                             ELSE [file.cfg.MCPServers[k] EXCEPT !.Name = k]],
                         [k \in DOMAIN file.cfg.Servers |->
                             IF file.cfg.Servers[k].isNil THEN file.cfg.Servers[k]
                             ELSE [file.cfg.Servers[k] EXCEPT !.Name = k]]),
          err |-> Nil]

LoadConfig(path) ==
    IF Locate(path) \notin DOMAIN ConfigFiles
    THEN [cfg |-> Config(EmptyMap, EmptyMap),
          err |-> Wrap("failed to read config file", NewError("open"))]
    ELSE ParseConfig(ConfigFiles[Locate(path)])

\* strings.Fields on a command line given as words and blanks
Fields(command) == SelectSeq(command, LAMBDA w : ~IsSpace(w))

\* buildConfigFromFlags; panics = TRUE is the run-time panic of an index out
\* of range
buildConfigFromFlags(f) ==
    LET srv == ServerConfig("", "", "", <<>>, "", EmptyMap, EmptyPath)
        none == Config(EmptyMap, EmptyMap)
    IN  IF f.transport = "stdio"
        THEN IF f.command = <<>>
             THEN [cfg |-> none, panics |-> FALSE,
                   err |-> NewError("--mcp.command is required for stdio transport")]
             ELSE LET parts == Fields(f.command)
                  IN  IF parts = <<>>
                      THEN [cfg |-> none, panics |-> TRUE, err |-> Nil]
                      ELSE [cfg |-> Config(("" :> [srv EXCEPT !.Command = parts[1],
                                                              !.Args = Tail(parts)]),
                                           EmptyMap),
                            panics |-> FALSE, err |-> Nil]
        ELSE IF f.url = ""
             THEN [cfg |-> none, panics |-> FALSE,
                   err |-> NewError("--mcp.url is required for http transport")]
             ELSE [cfg |-> Config(("" :> [srv EXCEPT !.URL = f.url]), EmptyMap),
                   panics |-> FALSE, err |-> Nil]

\* loadOrBuildConfig
loadOrBuildConfig(f) ==
    IF f.configFile # EmptyPath
    THEN LET l == LoadConfig(f.configFile)
         IN  IF l.err # Nil
             THEN [cfg |-> l.cfg, configDir |-> EmptyPath, panics |-> FALSE,
                   err |-> Wrap("failed to load config", l.err)]
             ELSE [cfg |-> l.cfg, configDir |-> Dir(f.configFile), panics |-> FALSE,
                   err |-> Nil]
    ELSE LET b == buildConfigFromFlags(f)
         IN  [cfg |-> b.cfg, configDir |-> EmptyPath, panics |-> b.panics, err |-> b.err]

\* an env resolution that fills the inline map of the server instead of a
\* map of its own
ResolveEnvContainerInline(srv) == "Env"

\* the map ResolveServerEnv writes its result into: one it makes
ResolveEnvContainer(srv) == "new"

\* the ServerConfig as NewClientFromConfig leaves it once the environment is
\* resolved; the options it builds share srv.Headers, which is only read
ServerAfterResolve(srv, configDir) ==
    IF srv.isNil \/ ResolveServerEnv(srv, configDir).err # Nil THEN srv
    ELSE IF ResolveEnvContainer(srv) = "Env"
         THEN [srv EXCEPT !.Env = ResolveServerEnv(srv, configDir).env]
    ELSE srv

\* a write to the ServerConfig behind a name, seen through the Config: the
\* maps of the Config and the server map hold the same pointers
WriteThrough(c, name, srv) ==
    IF name \in DOMAIN c.MCPServers THEN [c EXCEPT !.MCPServers[name] = srv]
    ELSE IF name \in DOMAIN c.Servers THEN [c EXCEPT !.Servers[name] = srv]
    ELSE c

\* NewClientFromConfig up to the call that connects: the error it returns
\* before connecting, Nil when it goes on to connect
ClientConfigError(srv, configDir) ==
    IF srv.isNil THEN NewError("server configuration is nil")
    ELSE IF ResolveServerEnv(srv, configDir).err # Nil
         THEN Wrap("failed to resolve environment", ResolveServerEnv(srv, configDir).err)
    ELSE IF srv.Type = TransportStdio
         THEN IF srv.Command = ""
              THEN NewError("MCP command for stdio transport cannot be empty")
              ELSE Nil
    ELSE IF srv.Type = TransportHTTP THEN Nil
    ELSE NewError("unsupported transport type: %s")

\* the error of a failed Connect, as the two constructors wrap it
ConnectError(srv) ==
    IF srv.Type = TransportStdio
    THEN Wrap("failed to connect MCP client and establish session", NewError("connect"))
    ELSE Wrap("failed to connect to MCP server at %s", NewError("connect"))

\* analyzeServer, run on its own: the result for a server whose connection
\* comes to outcome o
analyzeServer(name, srv, configDir, o) ==
    IF ClientConfigError(srv, configDir) # Nil
    THEN ServerResult(name, ClientConfigError(srv, configDir))
    ELSE IF o = "connfail" THEN ServerResult(name, ConnectError(srv))
    ELSE [analyzeClient(srv.Name, Session(name, o)) EXCEPT !.Name = name]

(***************************************************************************)
(* cmd/mcp-token-analyzer/render.go: the detail tables of several servers. *)
(***************************************************************************)
\* the loop of renderNamespacedTable over the results that are left: the
\* items of the results without an error, each under its namespaced name
RECURSIVE CollectItems(_, _, _)
CollectItems(list, kind, items) ==
    IF list = <<>> THEN items
    ELSE LET r == Head(list)
             own == [i \in 1..Len(r[kind]) |->
                        [Server |-> r.Name,
                         Name |-> r.Name \o namespaceSeparator \o r[kind][i].Name,
                         Stats |-> r[kind][i]]]
         IN  IF r.Error # Nil THEN CollectItems(Tail(list), kind, items)
             ELSE CollectItems(Tail(list), kind, items \o own)

\* the sort of renderNamespacedTable, by total tokens, largest first; it is
\* not stable
SortItems(items) ==
    LET n == Len(items)
        perms == {p \in [1..n -> 1..n] : \A i, j \in 1..n : p[i] = p[j] => i = j}
        arranged == {[i \in 1..n |-> items[p[i]]] : p \in perms}
    IN  {sorted \in arranged :
            \A i, j \in 1..n :
                i < j => ~(sorted[j].Stats.TotalTokens > sorted[i].Stats.TotalTokens)}

\* the rows one call of renderNamespacedTable may print
renderNamespacedTable(list, kind) == SortItems(CollectItems(list, kind, <<>>))

(***************************************************************************)
(* State.                                                                  *)
(***************************************************************************)
VARIABLES
    flags,      \* the command-line flags of the run
    pc,         \* where run() and runAnalysis() stand
    counter,    \* whether the TokenCounter was constructed
    cfg,        \* the Config
    configDir,  \* the directory relative env files are resolved against
    steps,      \* the pipeline functions called so far, in order
    warned,     \* the warnings printed
    servers,    \* the server map runAnalysis works on
    retErr,     \* the error run() returns
    rendered,   \* what was rendered
    wpc,        \* per server: where its connect-and-analyze unit stands
    wres,       \* per server: the ServerResult its unit holds
    outcome,    \* per server: what its connection came to
    conn,       \* per server: the state of its session
    ops,        \* per server: the calls made to connect and on its session, in order
    atStart,    \* per server: whether the context was cancelled when it started
    results,    \* the shared result list of connectAndAnalyzeAll
    finished,   \* the servers whose result was appended, in the order of the appends
    mu,         \* the lock of the result list
    cancelled,  \* whether the context of the run is cancelled
    cmu,        \* TokenCounter.mu: its holder, 0 when free
    encBuf,     \* the working state of the encoder
    cpc,        \* per caller of the counter: where it stands
    cjob,       \* per caller: the texts it counts, in order
    cout,       \* per caller: the counts returned to it so far
    call,       \* the function call under test
    ret,        \* what it returned
    held        \* the map a caller got from GetServers and still holds

pipeVars == <<flags, pc, counter, cfg, configDir, steps, warned, servers, retErr, rendered>>
pipeRest == <<flags, pc, counter, configDir, steps, warned, servers, retErr, rendered>>
unitVars == <<wpc, wres, outcome, conn, ops, atStart, results, finished, mu, cancelled>>
counterVars == <<cmu, encBuf, cpc, cjob, cout>>
fnVars == <<call, ret, held>>
vars == <<flags, pc, counter, cfg, configDir, steps, warned, servers, retErr, rendered,
          wpc, wres, outcome, conn, ops, atStart, results, finished, mu, cancelled,
          cmu, encBuf, cpc, cjob, cout, call, ret, held>>

Callers == 1..MaxCallers
NoCall == [op |-> "none"]
\* no map is held; ref names the container a held map is
NoHeld == [ref |-> "none", map |-> <<>>, changes |-> 0]

\* nothing runs on the counter and no function is under test
CounterIdle ==
    /\ cmu = 0
    /\ encBuf = ""
    /\ cpc = [c \in Callers |-> "idle"]
    /\ cjob = [c \in Callers |-> <<>>]
    /\ cout = [c \in Callers |-> <<>>]
FnIdle == call = NoCall /\ ret = NoCall /\ held = NoHeld

(***************************************************************************)
(* The invocations of the program.                                         *)
(***************************************************************************)
Flags(model, file, transport, command, url, server) ==
    [tokenizerModel |-> model, configFile |-> file, transport |-> transport,
     command |-> command, url |-> url, server |-> server]

\* the models tiktoken knows
KnownModels == {"gpt-4", "gpt-3.5-turbo"}

FileNames == {<<"two.json">>, <<"three.json">>, <<"one.json">>, <<"empty.json">>,
              <<"invalid.json">>, <<"malformed.json">>, <<"anon.json">>,
              <<"shadow.json">>, <<"four.json">>, <<"missing.json">>}
\* the config files an invocation may name: those declaring at most MaxServers
FilesInBound ==
    {f \in FileNames :
        (<<"cfg">> \o f) \in DOMAIN ConfigFiles =>
            Cardinality(DOMAIN GetServers(ConfigFiles[<<"cfg">> \o f].cfg)) <= MaxServers}

Invocations ==
    {Flags(m, Path(TRUE, <<"cfg">> \o f), "stdio", <<>>, "", "") :
        m \in {"gpt-4", "no-such-model"}, f \in FilesInBound}
    \cup {Flags("gpt-4", Path(TRUE, <<"cfg", "two.json">>), "stdio", <<>>, "", sv) :
            sv \in {"a", "b", "nope"}}
    \cup {Flags("", Path(TRUE, <<"cfg", "three.json">>), "stdio", <<>>, "", "c")}
    \cup {Flags("gpt-4", EmptyPath, "stdio", c, "", "") :
            c \in {<<>>, <<"echo">>, <<"echo", " ", "hi">>, <<" ">>}}
    \cup {Flags("gpt-4", EmptyPath, t, <<>>, u, "") :
            t \in {TransportHTTP, TransportStreamableHTTP},
            u \in {"", "http://localhost:9/mcp", "localhost:3000/mcp"}}

NoConfig == Config(EmptyMap, EmptyMap)
MuFree == [held |-> FALSE, by |-> ""]

\* nothing of a run has happened yet
Fresh ==
    /\ cfg = NoConfig
    /\ configDir = EmptyPath
    /\ steps = <<>>
    /\ warned = {}
    /\ servers = EmptyMap
    /\ retErr = Nil
    /\ rendered = "none"
    /\ wpc = EmptyMap
    /\ wres = EmptyMap
    /\ outcome = EmptyMap
    /\ conn = EmptyMap
    /\ ops = EmptyMap
    /\ atStart = EmptyMap
    /\ results = <<>>
    /\ finished = <<>>
    /\ mu = MuFree
    /\ cancelled = FALSE

\* the entry of run() under the flags f
PipeStart(f) ==
    /\ flags = f
    /\ pc = "run"
    /\ counter = FALSE
    /\ Fresh

\* no run: a TokenCounter built for the default encoding, for the callers of
\* the package functions
Off ==
    /\ flags = Flags("", EmptyPath, "stdio", <<>>, "", "")
    /\ pc = "off"
    /\ counter = TRUE
    /\ Fresh

Init ==
    /\ \E f \in Invocations : PipeStart(f)
    /\ CounterIdle
    /\ FnIdle

(***************************************************************************)
(* run(): the pipeline up to runAnalysis.                                  *)
(***************************************************************************)
Exit(err) == pc' = "exit" /\ retErr' = err

\* analyzer.NewTokenCounter, and run() returning on its error
NewTokenCounter ==
    /\ pc = "run"
    /\ steps' = Append(steps, "NewTokenCounter")
    /\ IF flags.tokenizerModel = "" \/ flags.tokenizerModel \in KnownModels
       THEN /\ counter' = TRUE
            /\ pc' = "load"
            /\ UNCHANGED retErr
       ELSE /\ Exit(Wrap("failed to initialize token counter",
                         Wrap("failed to get encoding", NewError("tiktoken"))))
            /\ UNCHANGED counter
    /\ UNCHANGED <<flags, cfg, configDir, warned, servers, rendered>>
    /\ UNCHANGED <<unitVars, counterVars, fnVars>>

\* loadOrBuildConfig, and run() returning on its error
LoadOrBuildConfig ==
    /\ pc = "load"
    /\ steps' = Append(steps, "loadOrBuildConfig")
    /\ LET r == loadOrBuildConfig(flags)
       IN  IF r.panics
           THEN /\ pc' = "panic"
                /\ UNCHANGED <<cfg, configDir, retErr>>
           ELSE IF r.err # Nil
           THEN /\ Exit(r.err)
                /\ UNCHANGED <<cfg, configDir>>
           ELSE /\ cfg' = r.cfg
                /\ configDir' = r.configDir
                /\ pc' = "infer"
                /\ UNCHANGED retErr
    /\ UNCHANGED <<flags, counter, warned, servers, rendered>>
    /\ UNCHANGED <<unitVars, counterVars, fnVars>>

\* cfg.InferDefaults()
InferDefaultsStep ==
    /\ pc = "infer"
    /\ steps' = Append(steps, "InferDefaults")
    /\ cfg' = InferDefaults(cfg)
    /\ pc' = "validate"
    /\ UNCHANGED <<flags, counter, configDir, warned, servers, retErr, rendered>>
    /\ UNCHANGED <<unitVars, counterVars, fnVars>>

\* a run() that drops the error of Validate
AfterValidateIgnore(err) == "warnings"

\* what run() does with the error of Validate: it returns it, wrapped
AfterValidate(err) == IF err # Nil THEN "exit" ELSE "warnings"

\* cfg.Validate(), and run() returning on its error
ValidateStep ==
    /\ pc = "validate"
    /\ steps' = Append(steps, "Validate")
    /\ pc' = AfterValidate(Validate(cfg))
    /\ retErr' = IF pc' = "exit" THEN Wrap("invalid config", Validate(cfg)) ELSE retErr
    /\ UNCHANGED <<flags, counter, cfg, configDir, warned, servers, rendered>>
    /\ UNCHANGED <<unitVars, counterVars, fnVars>>

\* the loop over cfg.Warnings()
WarningsStep ==
    /\ pc = "warnings"
    /\ steps' = Append(steps, "Warnings")
    /\ warned' = Warnings(cfg)
    /\ pc' = "analysis"
    /\ UNCHANGED <<flags, counter, cfg, configDir, servers, retErr, rendered>>
    /\ UNCHANGED <<unitVars, counterVars, fnVars>>

(***************************************************************************)
(* runAnalysis and the connect-and-analyze units.                          *)
(***************************************************************************)
Keys == DOMAIN servers

\* the units admitted by the errgroup that have not returned
Running == {s \in Keys : wpc[s] \notin {"idle", "done"}}

\* a group without a limit
SlotFreeAlways(active) == TRUE

\* errgroup's limit: g.Go admits a unit while fewer than the limit run
SlotFree(active) == active < maxConcurrentConnections

\* one loop variable shared by every closure: each reads the last key
UnitKeyShared(s) == CHOOSE k \in Keys : \A j \in Keys : ~StrLess(k, j)

\* the loop variable name a unit's closure reads: its own iteration's
UnitKey(s) == s

\* a closure that hands a failure to the errgroup instead of recording it
AppendToLossy(list, result) == IF result.Error # Nil THEN list ELSE Append(list, result)

\* what the closure of g.Go adds to the shared list
AppendTo(list, result) == Append(list, result)

\* the less function of the sort of connectAndAnalyzeAll
Less(ri, rj) == StrLess(ri.Name, rj.Name)

RECURSIVE SortSlice(_)

\* no sort: the list stays in the order of the appends
SortSliceNone(list) == {list}

\* sort.Slice is not stable: any arrangement of the list without an
\* inversion of less may be its result
SortSlice(list) ==
    LET n == Len(list)
        first == {i \in 1..n : \A j \in 1..n : ~Less(list[j], list[i])}
        without(i) == SubSeq(list, 1, i - 1) \o SubSeq(list, i + 1, n)
    IN  IF n = 0 THEN {<<>>}
        ELSE UNION {{<<list[i]>> \o rest : rest \in SortSlice(without(i))} : i \in first}

\* runAnalysis up to the first connection: the filter of --server, the check
\* for no servers, and the choice between the single-server path, which
\* calls analyzeServer itself, and connectAndAnalyzeAll
RunAnalysis ==
    /\ pc = "analysis"
    /\ steps' = Append(steps, "runAnalysis")
    /\ LET all == GetServers(cfg)
           found == flags.server = "" \/ flags.server \in DOMAIN all
           chosen == IF flags.server = "" THEN all
                     ELSE IF found THEN (flags.server :> all[flags.server])
                     ELSE EmptyMap
       IN  IF ~found
           THEN /\ Exit(NewError("server %q not found in config"))
                /\ UNCHANGED <<servers, wpc, wres, outcome, conn, ops, atStart>>
           ELSE IF DOMAIN chosen = {}
           THEN /\ Exit(NewError("no servers to analyze"))
                /\ UNCHANGED <<servers, wpc, wres, outcome, conn, ops, atStart>>
           ELSE /\ servers' = chosen
                /\ pc' = IF Cardinality(DOMAIN chosen) = 1 THEN "single" ELSE "fanout"
                /\ wpc' = [k \in DOMAIN chosen |->
                              IF Cardinality(DOMAIN chosen) = 1 THEN "connect" ELSE "idle"]
                /\ wres' = [k \in DOMAIN chosen |-> ServerResult("", Nil)]
                /\ outcome' = [k \in DOMAIN chosen |-> "none"]
                /\ conn' = [k \in DOMAIN chosen |-> "none"]
                /\ ops' = [k \in DOMAIN chosen |-> <<>>]
                /\ atStart' = [k \in DOMAIN chosen |-> cancelled]
                /\ UNCHANGED retErr
    /\ UNCHANGED <<flags, counter, cfg, configDir, warned, rendered>>
    /\ UNCHANGED <<results, finished, mu, cancelled>>
    /\ UNCHANGED <<counterVars, fnVars>>

\* g.Go for one server of the range loop: the unit starts when the errgroup
\* has a free slot
StartUnit(s) ==
    /\ pc = "fanout"
    /\ s \in Keys
    /\ wpc[s] = "idle"
    /\ SlotFree(Cardinality(Running))
    /\ wpc' = [wpc EXCEPT ![s] = "connect"]
    /\ atStart' = [atStart EXCEPT ![s] = cancelled]
    /\ UNCHANGED <<wres, outcome, conn, ops, results, finished, mu, cancelled>>
    /\ UNCHANGED <<pipeVars, counterVars, fnVars>>

\* analyzeServer up to the return of NewClientFromConfig
Connect(s) ==
    /\ pc \in {"single", "fanout"}
    /\ s \in Keys
    /\ wpc[s] = "connect"
    /\ LET name == UnitKey(s)
           srv == servers[name]
           e == ClientConfigError(srv, configDir)
       IN  IF e # Nil
           THEN /\ outcome' = [outcome EXCEPT ![s] = "cfgfail"]
                /\ wres' = [wres EXCEPT ![s] = ServerResult(name, e)]
                /\ wpc' = [wpc EXCEPT ![s] = "append"]
                /\ UNCHANGED <<conn, ops>>
           ELSE \E o \in ConnectOutcomes :
                /\ outcome' = [outcome EXCEPT ![s] = o]
                /\ ops' = [ops EXCEPT ![s] = Append(@, "Connect")]
                /\ IF o = "connfail"
                   THEN /\ wres' = [wres EXCEPT ![s] = ServerResult(name, ConnectError(srv))]
                        /\ wpc' = [wpc EXCEPT ![s] = "append"]
                        /\ UNCHANGED conn
                   ELSE /\ conn' = [conn EXCEPT ![s] = "open"]
                        /\ wpc' = [wpc EXCEPT ![s] = "analyze"]
                        /\ UNCHANGED wres
    /\ servers' = [servers EXCEPT ![UnitKey(s)] = ServerAfterResolve(@, configDir)]
    /\ cfg' = WriteThrough(cfg, UnitKey(s), ServerAfterResolve(servers[UnitKey(s)], configDir))
    /\ UNCHANGED <<atStart, results, finished, mu, cancelled>>
    /\ UNCHANGED <<flags, pc, counter, configDir, steps, warned, retErr, rendered>>
    /\ UNCHANGED <<counterVars, fnVars>>

\* analyzeClient on the connected session
AnalyzeClient(s) ==
    /\ pc \in {"single", "fanout"}
    /\ s \in Keys
    /\ wpc[s] = "analyze"
    /\ wres' = [wres EXCEPT ![s] =
                   analyzeClient(servers[UnitKey(s)].Name, Session(UnitKey(s), outcome[s]))]
    /\ ops' = [ops EXCEPT ![s] = @ \o SessionCalls(Session(UnitKey(s), outcome[s]))]
    /\ wpc' = [wpc EXCEPT ![s] = "close"]
    /\ UNCHANGED <<outcome, conn, atStart, results, finished, mu, cancelled>>
    /\ UNCHANGED <<pipeVars, counterVars, fnVars>>

\* a close that is called only after an analysis without error
DeferredCloseOnSuccess(result) == result.Error = Nil

\* defer client.Close(): it runs whatever analyzeClient returned
DeferredClose(result) == TRUE

\* the end of analyzeServer: the name is set, the function returns and the
\* deferred client.Close() runs
CloseClient(s) ==
    /\ pc \in {"single", "fanout"}
    /\ s \in Keys
    /\ wpc[s] = "close"
    /\ wres' = [wres EXCEPT ![s].Name = UnitKey(s)]
    /\ IF DeferredClose(wres[s])
       THEN /\ conn' = [conn EXCEPT ![s] = "closed"]
            /\ ops' = [ops EXCEPT ![s] = Append(@, "Close")]
       ELSE UNCHANGED <<conn, ops>>
    /\ wpc' = [wpc EXCEPT ![s] = "append"]
    /\ UNCHANGED <<outcome, atStart, results, finished, mu, cancelled>>
    /\ UNCHANGED <<pipeVars, counterVars, fnVars>>

\* mu.Lock() in the closure of g.Go
LockResults(s) ==
    /\ pc = "fanout"
    /\ s \in Keys
    /\ wpc[s] = "append"
    /\ ~mu.held
    /\ mu' = [held |-> TRUE, by |-> s]
    /\ wpc' = [wpc EXCEPT ![s] = "locked"]
    /\ UNCHANGED <<wres, outcome, conn, ops, atStart, results, finished, cancelled>>
    /\ UNCHANGED <<pipeVars, counterVars, fnVars>>

\* a closure that returns with the lock of the result list held
MuAfterAppendKept(s) == [held |-> TRUE, by |-> s]

\* the deferred mu.Unlock() of the closure
MuAfterAppend(s) == MuFree

\* the append, the deferred mu.Unlock() and the return of the closure
AppendResult(s) ==
    /\ pc = "fanout"
    /\ s \in Keys
    /\ wpc[s] = "locked"
    /\ results' = AppendTo(results, wres[s])
    /\ finished' = Append(finished, s)
    /\ mu' = MuAfterAppend(s)
    /\ wpc' = [wpc EXCEPT ![s] = "done"]
    /\ UNCHANGED <<wres, outcome, conn, ops, atStart, cancelled>>
    /\ UNCHANGED <<pipeVars, counterVars, fnVars>>

\* g.Wait() returning once every unit returned, the sort, and the return of
\* connectAndAnalyzeAll
WaitAndSort ==
    /\ pc = "fanout"
    /\ \A s \in Keys : wpc[s] = "done"
    /\ results' \in SortSlice(results)
    /\ pc' = "report"
    /\ UNCHANGED <<flags, counter, cfg, configDir, steps, warned, servers, retErr, rendered>>
    /\ UNCHANGED <<wpc, wres, outcome, conn, ops, atStart, finished, mu, cancelled>>
    /\ UNCHANGED <<counterVars, fnVars>>

\* the number of results with an error: the counting loop of runAnalysis
FailCount(list) == Cardinality({i \in 1..Len(list) : list[i].Error # Nil})

\* the error runAnalysis returns for the single server it analyzed itself
SingleError(name, result) ==
    IF result.Error # Nil THEN Wrap("server %q", result.Error) ELSE Nil

\* the end of the single-server path of runAnalysis
SingleReturn(s) ==
    /\ pc = "single"
    /\ s \in Keys
    /\ wpc[s] = "append"
    /\ wpc' = [wpc EXCEPT ![s] = "done"]
    /\ Exit(SingleError(s, wres[s]))
    /\ rendered' = IF wres[s].Error # Nil THEN rendered ELSE "single"
    /\ UNCHANGED <<flags, counter, cfg, configDir, steps, warned, servers>>
    /\ UNCHANGED <<wres, outcome, conn, ops, atStart, results, finished, mu, cancelled>>
    /\ UNCHANGED <<counterVars, fnVars>>

\* the end of the multi-server path of runAnalysis: the rendering and the
\* failure count
Report ==
    /\ pc = "report"
    /\ rendered' = "group"
    /\ Exit(IF FailCount(results) > 0
            THEN NewErrorN("%d of %d servers failed analysis", FailCount(results), Len(results))
            ELSE Nil)
    /\ UNCHANGED <<flags, counter, cfg, configDir, steps, warned, servers>>
    /\ UNCHANGED <<unitVars, counterVars, fnVars>>

\* the signal handler of main cancels the context of the run
Cancel ==
    /\ pc \in {"single", "fanout"}
    /\ ~cancelled
    /\ cancelled' = TRUE
    /\ UNCHANGED <<wpc, wres, outcome, conn, ops, atStart, results, finished, mu>>
    /\ UNCHANGED <<pipeVars, counterVars, fnVars>>

Next ==
    \/ NewTokenCounter
    \/ LoadOrBuildConfig
    \/ InferDefaultsStep
    \/ ValidateStep
    \/ WarningsStep
    \/ RunAnalysis
    \/ \E s \in Keys : StartUnit(s)
    \/ \E s \in Keys : Connect(s)
    \/ \E s \in Keys : AnalyzeClient(s)
    \/ \E s \in Keys : CloseClient(s)
    \/ \E s \in Keys : LockResults(s)
    \/ \E s \in Keys : AppendResult(s)
    \/ \E s \in Keys : SingleReturn(s)
    \/ WaitAndSort
    \/ Report
    \/ Cancel

Spec == Init /\ [][Next]_vars

TypeOK ==
    /\ pc \in {"run", "load", "infer", "validate", "warnings", "analysis", "single",
               "fanout", "report", "exit", "panic", "off"}
    /\ Len(results) <= Cardinality(Keys)

(***************************************************************************)
(* Properties of connectAndAnalyzeAll (RunAll).                            *)
(***************************************************************************)
\* connectAndAnalyzeAll has returned its list
Returned == pc = "report" \/ (pc = "exit" /\ rendered = "group")

\* the servers whose unit called NewClientFromConfig
Attempted == {s \in Keys : outcome[s] # "none"}

\* the outcomes in which a server fails to connect: its environment or its
\* configuration is refused before the connection, the connection fails, or
\* the session it yields has no initialize result (the handshake)
ConnectFailures == {"cfgfail", "connfail", "noinit"}

\* the i-th key of the server map in the order of the names
KthKey(i) == CHOOSE k \in Keys : Cardinality({j \in Keys : StrLess(j, k)}) = i - 1

RECURSIVE SumTotals(_)
SumTotals(stats) ==
    IF stats = <<>> THEN 0 ELSE Head(stats).TotalTokens + SumTotals(Tail(stats))

\* a complete ServerResult: failed with nothing else set, or without error
\* and with every category total in agreement with its items
ValidResult(r) ==
    IF r.Error # Nil THEN r = ServerResult(r.Name, r.Error)
    ELSE /\ r.TotalToolTokens.Name = tableLabelTotal
         /\ r.TotalPromptTokens.Name = tableLabelTotal
         /\ r.TotalResourceTokens.Name = tableLabelTotal
         /\ r.TotalToolTokens.TotalTokens = SumTotals(r.ToolStats)
         /\ r.TotalPromptTokens.TotalTokens = SumTotals(r.PromptStats)
         /\ r.TotalResourceTokens.TotalTokens = SumTotals(r.ResourceStats)

\* C1: the list returned by connectAndAnalyzeAll has exactly one result for
\* each key of the server map, whatever the outcomes and the interleaving:
\* as many results as servers, and each key names exactly one of them.
C1_OneResultPerServer ==
    Returned =>
        /\ Len(results) = Cardinality(Keys)
        /\ \A k \in Keys : Cardinality({i \in 1..Len(results) : results[i].Name = k}) = 1

\* C1 witness: a returned list for three servers of which one failed before
\* connecting, one failed to connect and one was analyzed.
C1_Witness ==
    /\ Returned
    /\ Cardinality(Keys) = 3
    /\ {"cfgfail", "connfail", "ok"} \subseteq {outcome[k] : k \in Keys}
    /\ Len(results) = 3

\* C2: given N servers of which K fail to connect (failing to resolve their
\* environment and failing the handshake included), the returned list has
\* exactly K results with an error, those of the K servers; the other
\* results have no error and are what their server produces on its own for
\* its own outcome; every unit ran to its end whatever the others did.
C2_FailuresIsolated ==
    Returned =>
        /\ \A k \in Keys : wpc[k] = "done" /\ outcome[k] # "none"
        /\ FailCount(results) = Cardinality({k \in Keys : outcome[k] \in ConnectFailures})
        /\ \A i \in 1..Len(results) :
              /\ results[i].Name \in Keys
              /\ results[i].Error # Nil <=> outcome[results[i].Name] \in ConnectFailures
              /\ results[i] = analyzeServer(results[i].Name, servers[results[i].Name],
                                            configDir, outcome[results[i].Name])

\* C2 witness: a returned list where one server failed to connect and
\* another, appended after it, has its own counted instructions.
C2_Witness ==
    /\ Returned
    /\ \E i, j \in 1..Len(finished) :
          /\ i < j
          /\ outcome[finished[i]] = "connfail"
          /\ outcome[finished[j]] = "ok"
          /\ \E x \in 1..Len(results) :
                /\ results[x].Name = finished[j]
                /\ results[x].Error = Nil
                /\ results[x].InstructionTokens = Encode(World(finished[j]).Instructions)
                /\ results[x].InstructionTokens > 0

C4_Original ==
    \A s \in Keys :
        atStart[s] => (outcome[s] = "none" /\ s \notin SeqToSet(finished))

\* C4 amended: cancellation skips no unit.  After a cancellation the list
\* still has one result for every server, every unit has run, and every
\* element is a complete ServerResult.
C4_CancelKeepsAllResults ==
    (Returned /\ cancelled) =>
        /\ Len(results) = Cardinality(Keys)
        /\ \A s \in Keys : outcome[s] # "none"
        /\ \A s \in Keys : \E i \in 1..Len(results) : results[i].Name = s
        /\ \A i \in 1..Len(results) : ValidResult(results[i])

\* C4 witness: the list returned after a cancellation that came before some
\* unit had started, with the result of that unit's failed connection in it.
C4_Witness ==
    /\ Returned
    /\ cancelled
    /\ \E s \in Keys :
          /\ atStart[s]
          /\ \E t \in Keys : ~atStart[t]
          /\ outcome[s] = "connfail"
          /\ \E i \in 1..Len(results) : results[i].Name = s /\ results[i].Error # Nil

\* C6 as stated: runAnalysis returns an error exactly when some analyzed
\* server failed, and that error is the count "F of M servers failed".
C6_FailureOnlyAsCount ==
    (pc = "exit" /\ Keys # {}) =>
        LET failed == Cardinality({k \in Keys : wres[k].Error # Nil})
        IN  retErr = IF failed > 0
                     THEN NewErrorN("%d of %d servers failed analysis", failed,
                                    Cardinality(Keys))
                     ELSE Nil

\* the steps of run() that must precede any connection
Pipeline == <<"NewTokenCounter", "loadOrBuildConfig", "InferDefaults", "Validate">>

\* C7: a connection is attempted only after the counter was constructed, the
\* config was built, InferDefaults ran and Validate accepted the config; a
\* run that ended on a construction or validation error attempted nothing;
\* and InferDefaults precedes every Validate.
C7_NoConnectBeforeValidation ==
    /\ Attempted # {} =>
          /\ counter
          /\ Len(steps) >= 4
          /\ SubSeq(steps, 1, 4) = Pipeline
          /\ Validate(cfg) = Nil
          /\ cfg = InferDefaults(cfg)
    /\ (pc = "exit" /\ (Len(steps) < 4 \/ Validate(cfg) # Nil)) => Attempted = {}
    /\ \A i \in 1..Len(steps) :
          steps[i] = "Validate" => \E j \in 1..(i - 1) : steps[j] = "InferDefaults"

\* C7 witness: a connection was attempted for a server whose transport the
\* pipeline had to normalise before Validate accepted it.
C7_Witness ==
    /\ Attempted # {}
    /\ \E s \in Attempted :
          /\ servers[s].Type = TransportHTTP
          /\ s \in DOMAIN cfg.Servers
          /\ ConfigFiles[Locate(flags.configFile)].cfg.Servers[s].Type = TransportStreamableHTTP

(***************************************************************************)
(* The concurrency ceiling, on a config with more servers than the limit.  *)
(* The servers of that config are alike, so the range loop is followed in  *)
(* the order of the names, and at most MaxPoolAdvanced units go on past    *)
(* their connection.                                                       *)
(***************************************************************************)
PoolInvocation == Flags("gpt-4", Path(TRUE, PoolFile), "stdio", <<>>, "", "")

PoolInit ==
    /\ PipeStart(PoolInvocation)
    /\ CounterIdle
    /\ FnIdle

\* s is the next key of the range loop
PoolTurn(s) == \A t \in Keys : wpc[t] = "idle" => ~StrLess(t, s)

\* s may go on past its connection
PoolAdvance(s) ==
    Cardinality({t \in Keys : wpc[t] \notin {"idle", "connect"}} \cup {s}) <= MaxPoolAdvanced

PoolNext ==
    \/ NewTokenCounter
    \/ LoadOrBuildConfig
    \/ InferDefaultsStep
    \/ ValidateStep
    \/ WarningsStep
    \/ RunAnalysis
    \/ \E s \in Keys : PoolTurn(s) /\ StartUnit(s)
    \/ \E s \in Keys : PoolAdvance(s) /\ Connect(s)
    \/ \E s \in Keys : AnalyzeClient(s)
    \/ \E s \in Keys : CloseClient(s)
    \/ \E s \in Keys : LockResults(s)
    \/ \E s \in Keys : AppendResult(s)

SpecPool == PoolInit /\ [][PoolNext]_vars

\* C5: at every moment at most maxConcurrentConnections units run, and a
\* unit starts only while fewer than that many run, so that with more
\* servers than the limit a further unit waits for a running one to return.
C5_AtMostTenRunning ==
    /\ [](Cardinality(Running) <= maxConcurrentConnections)
    /\ [][\A s \in Keys :
            (wpc[s] = "idle" /\ wpc'[s] # "idle")
                => Cardinality(Running) < maxConcurrentConnections]_vars

\* C5 witness: with more servers than the limit, more units than the limit
\* have started, as many as the limit run, and one has returned.
C5_Witness ==
    /\ Cardinality(Keys) > maxConcurrentConnections
    /\ Cardinality({s \in Keys : wpc[s] # "idle"}) > maxConcurrentConnections
    /\ Cardinality(Running) = maxConcurrentConnections
    /\ Len(finished) >= 1


(***************************************************************************)
(* connectAndAnalyzeAll with the two locks.  The analysis of a session is  *)
(* followed call by call: after a call that answered, the unit counts what *)
(* it got under the lock of the TokenCounter, which CountTokens takes and  *)
(* releases around every encoding.  The configs of at most MaxLiveServers  *)
(* servers are followed in every interleaving; the large config is         *)
(* followed in the order of its names, one unit past its connection at a   *)
(* time, the first of them with every outcome.                             *)
(***************************************************************************)
LiveFiles ==
    {f \in {<<"two.json">>, <<"three.json">>} :
        Cardinality(DOMAIN GetServers(ConfigFiles[<<"cfg">> \o f].cfg)) <= MaxLiveServers}

LiveInvocations ==
    {PoolInvocation}
    \cup {Flags("gpt-4", Path(TRUE, <<"cfg">> \o f), "stdio", <<>>, "", "") : f \in LiveFiles}

LiveInit ==
    /\ \E f \in LiveInvocations : PipeStart(f)
    /\ CounterIdle
    /\ FnIdle

\* the holder's mark in TokenCounter.mu: the place of the unit's key
UnitNo(s) == Cardinality({j \in Keys : ~StrLess(s, j)})

Large == Cardinality(Keys) > MaxLiveServers

\* the units past their connection that have not returned
InFlight == {t \in Keys : wpc[t] \notin {"idle", "connect", "done"}}

LiveTurn(s) == Large => PoolTurn(s)

LiveAdvance(s) ==
    Large => /\ InFlight = {}
             /\ \A t \in Keys : wpc[t] = "connect" => ~StrLess(t, s)

LiveOutcomes(s) ==
    IF Large /\ \E t \in Keys : StrLess(t, s) THEN {"ok", "cfgfail"}
    ELSE ConnectOutcomes \cup {"cfgfail"}

\* whether analyzeClient counts tokens after the call c on the session: the
\* instructions after the initialize result, the listed items after a
\* listing that answered some
CountsAfter(session, c) ==
    CASE c = "InitializeResult" -> session.init
      [] c = "ListTools" -> ~session.tools.err /\ session.tools.items # <<>>
      [] c = "ListPrompts" -> ~session.prompts.err /\ session.prompts.items # <<>>
      [] c = "ListResources" -> ~session.resources.err /\ session.resources.items # <<>>
      [] c = "ListResourceTemplates" ->
             ~session.templates.err /\ session.templates.items # <<>>

\* the calls a unit made on its session so far
Made(s) == Len(ops[s]) - 1

\* the next call of analyzeClient on the session
SessionStep(s) ==
    /\ pc = "fanout"
    /\ s \in Keys
    /\ wpc[s] = "analyze"
    /\ LET session == Session(UnitKey(s), outcome[s])
           calls == SessionCalls(session)
       IN  /\ Made(s) < Len(calls)
           /\ ops' = [ops EXCEPT ![s] = Append(@, calls[Made(s) + 1])]
           /\ wpc' = [wpc EXCEPT ![s] =
                         IF CountsAfter(session, calls[Made(s) + 1]) THEN "count"
                         ELSE "analyze"]
    /\ UNCHANGED <<wres, outcome, conn, atStart, results, finished, mu, cancelled>>
    /\ UNCHANGED <<pipeVars, counterVars, fnVars>>

\* c.mu.Lock() in CountTokens
CountLock(s) ==
    /\ pc = "fanout"
    /\ s \in Keys
    /\ wpc[s] = "count"
    /\ cmu = 0
    /\ cmu' = UnitNo(s)
    /\ wpc' = [wpc EXCEPT ![s] = "counting"]
    /\ UNCHANGED <<wres, outcome, conn, ops, atStart, results, finished, mu, cancelled>>
    /\ UNCHANGED <<pipeVars, encBuf, cpc, cjob, cout, fnVars>>

\* the encoding and the deferred c.mu.Unlock()
CountUnlock(s) ==
    /\ pc = "fanout"
    /\ s \in Keys
    /\ wpc[s] = "counting"
    /\ cmu' = 0
    /\ wpc' = [wpc EXCEPT ![s] = "analyze"]
    /\ UNCHANGED <<wres, outcome, conn, ops, atStart, results, finished, mu, cancelled>>
    /\ UNCHANGED <<pipeVars, encBuf, cpc, cjob, cout, fnVars>>

\* the return of analyzeClient
ReturnResult(s) ==
    /\ pc = "fanout"
    /\ s \in Keys
    /\ wpc[s] = "analyze"
    /\ Made(s) = Len(SessionCalls(Session(UnitKey(s), outcome[s])))
    /\ wres' = [wres EXCEPT ![s] =
                   analyzeClient(servers[UnitKey(s)].Name, Session(UnitKey(s), outcome[s]))]
    /\ wpc' = [wpc EXCEPT ![s] = "close"]
    /\ UNCHANGED <<outcome, conn, ops, atStart, results, finished, mu, cancelled>>
    /\ UNCHANGED <<pipeVars, counterVars, fnVars>>

\* analyzeServer up to the return of NewClientFromConfig, in this schedule
LiveConnect(s) == LiveAdvance(s) /\ Connect(s) /\ outcome'[s] \in LiveOutcomes(s)

LiveNext ==
    \/ NewTokenCounter
    \/ LoadOrBuildConfig
    \/ InferDefaultsStep
    \/ ValidateStep
    \/ WarningsStep
    \/ RunAnalysis
    \/ \E s \in Keys : LiveTurn(s) /\ StartUnit(s)
    \/ \E s \in Keys : LiveConnect(s)
    \/ \E s \in Keys : SessionStep(s)
    \/ \E s \in Keys : CountLock(s)
    \/ \E s \in Keys : CountUnlock(s)
    \/ \E s \in Keys : ReturnResult(s)
    \/ \E s \in Keys : CloseClient(s)
    \/ \E s \in Keys : LockResults(s)
    \/ \E s \in Keys : AppendResult(s)
    \/ WaitAndSort
    \/ Report

\* the steps of the program itself: the pipeline, the goroutines of the
\* units between their calls, the locks, g.Wait()
LiveSteps ==
    \/ NewTokenCounter
    \/ LoadOrBuildConfig
    \/ InferDefaultsStep
    \/ ValidateStep
    \/ WarningsStep
    \/ RunAnalysis
    \/ \E s \in Keys : LiveTurn(s) /\ StartUnit(s)
    \/ \E s \in Keys : SessionStep(s)
    \/ \E s \in Keys : CountLock(s)
    \/ \E s \in Keys : CountUnlock(s)
    \/ \E s \in Keys : ReturnResult(s)
    \/ \E s \in Keys : CloseClient(s)
    \/ \E s \in Keys : LockResults(s)
    \/ \E s \in Keys : AppendResult(s)
    \/ WaitAndSort
    \/ Report

\* a unit is in NewClientFromConfig: LiveConnect is enabled
ConnectPending ==
    /\ pc = "fanout"
    /\ \E s \in Keys : wpc[s] = "connect" /\ LiveAdvance(s)

\* a goroutine that can take a step is scheduled, every call on a session
\* returns, and so does every connect: a unit connects once, so that weak
\* fairness of LiveConnect is that it is not enabled for ever
SpecLive ==
    /\ LiveInit
    /\ [][LiveNext]_vars
    /\ WF_vars(LiveSteps)
    /\ []<>~ConnectPending

(***************************************************************************)
(* TokenCounter under concurrent callers.  The encoder keeps its working   *)
(* text in encBuf while it runs: a second call entering it before the      *)
(* first has returned replaces that text.                                  *)
(***************************************************************************)
Job(kind, text, tool, prompt, resource) ==
    [kind |-> kind, text |-> text, tool |-> tool, prompt |-> prompt, resource |-> resource]

\* the calls a caller may make on the shared counter
Jobs ==
    {Job("CountTokens", "be nice", ToolOK, PromptOK, ResourceOK),
     Job("AnalyzeTool", "", ToolRich, PromptOK, ResourceOK),
     Job("AnalyzeTool", "", ToolBroken, PromptOK, ResourceOK),
     Job("AnalyzePrompt", "", ToolOK, PromptOK, ResourceOK),
     Job("AnalyzeResource", "", ToolOK, PromptOK, ResourceOK),
     Job("AnalyzeResourceTemplate", "", ToolOK, PromptOK, TemplateOK)}

\* the texts a call hands to CountTokens, in the order of its calls
Texts(job) ==
    CASE job.kind = "CountTokens" -> <<job.text>>
      [] job.kind = "AnalyzeTool" ->
            IF ~job.tool.InputSchema.marshalOK THEN <<>>
            ELSE <<job.tool.Name, job.tool.Description, job.tool.InputSchema.text>>
                 \o (IF job.tool.OutputSchema.present /\ job.tool.OutputSchema.marshalOK
                     THEN <<job.tool.OutputSchema.text>> ELSE <<>>)
                 \o (IF /\ job.tool.OutputSchema.present => job.tool.OutputSchema.marshalOK
                        /\ job.tool.Annotations.present
                        /\ job.tool.Annotations.marshalOK
                     THEN <<job.tool.Annotations.text>> ELSE <<>>)
      [] job.kind = "AnalyzePrompt" ->
            IF ~job.prompt.Arguments.marshalOK THEN <<>>
            ELSE <<job.prompt.Name, job.prompt.Description, job.prompt.Arguments.text>>
      [] OTHER -> <<job.resource.Name, job.resource.URI, job.resource.Description>>

\* the total the call returns when it runs alone
AloneTotal(job) ==
    CASE job.kind = "CountTokens" -> CountTokens(job.text)
      [] job.kind = "AnalyzeTool" -> AnalyzeTool(job.tool).stats.TotalTokens
      [] job.kind = "AnalyzePrompt" -> AnalyzePrompt(job.prompt).stats.TotalTokens
      [] job.kind = "AnalyzeResource" -> AnalyzeResource(job.resource).stats.TotalTokens
      [] OTHER -> AnalyzeResourceTemplate(job.resource).stats.TotalTokens

\* a counter without its mutex
CanLockAlways(holder) == TRUE

\* c.mu.Lock() returns when nobody holds the mutex
CanLock(holder) == holder = 0

\* the text of the CountTokens call a caller is at
CurrentText(c) == Texts(cjob[c])[Len(cout[c]) + 1]

\* a worker calls CountTokens or one of the Analyze functions
CallStart(c) ==
    /\ pc = "off"
    /\ cpc[c] = "idle"
    /\ \E job \in Jobs :
          /\ cjob' = [cjob EXCEPT ![c] = job]
          /\ cpc' = [cpc EXCEPT ![c] = IF Texts(job) = <<>> THEN "finished" ELSE "wait"]
    /\ UNCHANGED <<cmu, encBuf, cout>>
    /\ UNCHANGED <<pipeVars, unitVars, fnVars>>

\* c.mu.Lock()
CounterLock(c) ==
    /\ pc = "off"
    /\ cpc[c] = "wait"
    /\ CanLock(cmu)
    /\ cmu' = c
    /\ cpc' = [cpc EXCEPT ![c] = "locked"]
    /\ UNCHANGED <<encBuf, cjob, cout>>
    /\ UNCHANGED <<pipeVars, unitVars, fnVars>>

\* c.enc.Encode is entered with the text
EncodeBegin(c) ==
    /\ pc = "off"
    /\ cpc[c] = "locked"
    /\ encBuf' = CurrentText(c)
    /\ cpc' = [cpc EXCEPT ![c] = "encoding"]
    /\ UNCHANGED <<cmu, cjob, cout>>
    /\ UNCHANGED <<pipeVars, unitVars, fnVars>>

\* Encode returns, len() of it is taken, the deferred c.mu.Unlock() runs and
\* CountTokens returns; the caller goes on to its next CountTokens call
EncodeEnd(c) ==
    /\ pc = "off"
    /\ cpc[c] = "encoding"
    /\ cout' = [cout EXCEPT ![c] = Append(@, Encode(encBuf))]
    /\ cmu' = 0
    /\ encBuf' = ""
    /\ cpc' = [cpc EXCEPT ![c] = IF Len(cout'[c]) = Len(Texts(cjob[c]))
                                 THEN "finished" ELSE "wait"]
    /\ UNCHANGED cjob
    /\ UNCHANGED <<pipeVars, unitVars, fnVars>>

CountInit ==
    /\ Off
    /\ CounterIdle
    /\ FnIdle

CountNext ==
    \/ \E c \in Callers : CallStart(c)
    \/ \E c \in Callers : CounterLock(c)
    \/ \E c \in Callers : EncodeBegin(c)
    \/ \E c \in Callers : EncodeEnd(c)

SpecCount == CountInit /\ [][CountNext]_vars

RECURSIVE SumSeq(_)
SumSeq(q) == IF q = <<>> THEN 0 ELSE Head(q) + SumSeq(Tail(q))

\* the callers inside the underlying encoder
InEncoder == {c \in Callers : cpc[c] = "encoding"}

\* C10: with several workers calling CountTokens, directly or through the
\* Analyze functions, on one shared TokenCounter, at most one call is inside
\* the underlying encoder at any time, every CountTokens call returns the
\* count of its text run alone, and a finished Analyze call has the total it
\* has when run alone.
C10_CountTokensSerialized ==
    /\ Cardinality(InEncoder) <= 1
    /\ \A c \in Callers :
          /\ \A i \in 1..Len(cout[c]) : cout[c][i] = CountTokens(Texts(cjob[c])[i])
          /\ cpc[c] = "finished" /\ Texts(cjob[c]) # <<>> =>
                SumSeq(cout[c]) = AloneTotal(cjob[c])

\* two callers with different jobs finished, one of them through AnalyzeTool,
\* after one had to wait for the mutex the other held
C10_Witness ==
    /\ \E c, d \in Callers :
          /\ c # d
          /\ cpc[c] = "finished" /\ cjob[c].kind = "AnalyzeTool" /\ Len(cout[c]) = 5
          /\ cpc[d] = "encoding" /\ cjob[d].kind = "AnalyzePrompt" /\ Len(cout[d]) = 1


(***************************************************************************)
(* The package functions called on their own: resolveServerName and the    *)
(* env resolution of a server.                                             *)
(***************************************************************************)
ConfiguredNames == {"", "a", "my-server"}
ServerInfos ==
    {[present |-> FALSE, Name |-> ""], [present |-> TRUE, Name |-> ""],
     [present |-> TRUE, Name |-> "zeta"], [present |-> TRUE, Name |-> "server-reported"]}

\* the envFile references of a server: none, relative ones staying under the
\* directory of the config, relative ones leaving it, and absolute ones
EnvFileRefs ==
    {EmptyPath,
     Path(FALSE, <<".env">>), Path(FALSE, <<"subdir", "app.env">>),
     Path(FALSE, <<"subdir", "..", ".env">>), Path(FALSE, <<"bad.env">>),
     Path(FALSE, <<"missing.env">>), Path(FALSE, <<"..", "cfg", ".env">>),
     Path(FALSE, <<"..", "etc", "shadow">>), Path(FALSE, <<"..", "..", "etc", "shadow">>),
     Path(FALSE, <<"..", "ext", "external.env">>), Path(FALSE, <<"subdir", "..", "..", "etc", "shadow">>),
     Path(TRUE, <<"ext", "external.env">>), Path(TRUE, <<"cfg", ".env">>),
     Path(TRUE, <<"etc", "shadow">>), Path(TRUE, <<"ext", "missing.env">>)}
ConfigDirs == {Path(TRUE, <<"cfg">>), Path(TRUE, <<"cfg", "subdir">>), EmptyPath}
EnvMaps == {EmptyMap, (<<"S">> :> <<"y">>)}

\* a call of resolveServerName and what it returned
CallResolveServerName ==
    /\ pc = "off"
    /\ call = NoCall
    /\ \E configured \in ConfiguredNames, info \in ServerInfos :
          /\ call' = [op |-> "resolveServerName", configuredName |-> configured,
                      serverInfo |-> info]
          /\ ret' = [op |-> "resolveServerName",
                     name |-> resolveServerName(configured, info)]
    /\ UNCHANGED <<pipeVars, unitVars, counterVars, held>>

\* a call of ResolveServerEnv and what it returned
CallResolveServerEnv ==
    /\ pc = "off"
    /\ call = NoCall
    /\ \E ref \in EnvFileRefs, dir \in ConfigDirs, env \in EnvMaps :
          LET srv == ServerConfig("a", TransportStdio, "echo", <<>>, "", env, ref)
              r == ResolveServerEnv(srv, dir)
          IN  /\ call' = [op |-> "ResolveServerEnv", srv |-> srv, configDir |-> dir]
              /\ ret' = [op |-> "ResolveServerEnv", env |-> r.env, err |-> r.err,
                         opened |-> r.opened]
    /\ UNCHANGED <<pipeVars, unitVars, counterVars, held>>

\* the lines an env file is made of here
EnvLines ==
    {<<>>, <<" ">>, <<"#", "c">>, <<" ", "#", "=">>,
     <<"K", "=", "v">>, <<"K", "=", "w", "=", "z">>, <<"E", "=">>,
     <<"Q", "=", "\"", "q", "\"">>, <<"Q", "=", "'", "q", "\"">>,
     <<"D", "=", "'", "'", "d", "'", "'">>, <<"H", "=", "\"">>,
     <<" ", "W", " ", "=", " ", "w", " ">>,
     <<"N", "O">>, <<"=", "v">>, <<" ", "=", "v">>}
EnvContents == UNION {[1..n -> EnvLines] : n \in 0..MaxLines}

\* a call of LoadEnvFile on a file that opens and has the given lines
CallLoadEnvFile ==
    /\ pc = "off"
    /\ call = NoCall
    /\ \E content \in EnvContents :
          LET r == ScanLines(content, 0, EmptyMap)
          IN  /\ call' = [op |-> "LoadEnvFile", content |-> content]
              /\ ret' = [op |-> "LoadEnvFile", vars |-> r.vars, err |-> r.err]
    /\ UNCHANGED <<pipeVars, unitVars, counterVars, held>>

\* the numeric fields of the three statistics, without the total
SubFields(kind) ==
    CASE kind = "tool" -> {"NameTokens", "DescTokens", "SchemaTokens",
                           "OutputSchemaTokens", "AnnotationsTokens"}
      [] kind = "prompt" -> {"NameTokens", "DescTokens", "ArgsTokens"}
      [] kind = "resource" -> {"NameTokens", "URITokens", "DescTokens"}
TokenValues == {0, MaxTokens}
\* the statistics of one kind: every sub-field drawn on its own, the total
\* the sum of the sub-fields plus extra
Stats(kind, name, extra) ==
    CASE kind = "tool" ->
             {ToolTokens(name, n, d, sc, o, an, n + d + sc + o + an + extra) :
                 n \in TokenValues, d \in TokenValues, sc \in TokenValues,
                 o \in TokenValues, an \in TokenValues}
      [] kind = "prompt" ->
             {PromptTokens(name, n, d, ar, n + d + ar + extra) :
                 n \in TokenValues, d \in TokenValues, ar \in TokenValues}
      [] kind = "resource" ->
             {ResourceTokens(name, n, u, d, n + u + d + extra) :
                 n \in TokenValues, u \in TokenValues, d \in TokenValues}
Add(kind, t, other) ==
    CASE kind = "tool" -> ToolTokensAdd(t, other)
      [] kind = "prompt" -> PromptTokensAdd(t, other)
      [] kind = "resource" -> ResourceTokensAdd(t, other)

\* a call a.Add(b); other is passed by value, so the caller's b is as before
CallAdd ==
    /\ pc = "off"
    /\ call = NoCall
    /\ \E kind \in {"tool", "prompt", "resource"}, extra \in {0, 1} :
          \E a \in Stats(kind, "a", extra), b \in Stats(kind, "b", 0) :
              /\ call' = [op |-> "Add", kind |-> kind, a |-> a, b |-> b]
              /\ ret' = [op |-> "Add", a |-> Add(kind, a, b), b |-> b]
    /\ UNCHANGED <<pipeVars, unitVars, counterVars, held>>

\* the results handed to the detail tables: two servers in the order of
\* their names, each failed or with its tools and prompts
DetailNames == {<<"a", "a__b">>, <<"a", "b">>, <<"a__b", "b">>}
DetailTools ==
    {<<>>, <<ToolTokens("c", 1, 0, 2, 0, 0, 3)>>, <<ToolTokens("b__c", 2, 1, 2, 0, 0, 5)>>,
     <<ToolTokens("c", 1, 0, 2, 0, 0, 3), ToolTokens("b__c", 2, 1, 2, 0, 0, 5)>>}
DetailPrompts == {<<>>, <<PromptTokens("c", 1, 1, 1, 3)>>}
DetailResults(name) ==
    {[ServerResult(name, e) EXCEPT !.ToolStats = t, !.PromptStats = pr] :
        e \in {Nil, NewError("connect")}, t \in DetailTools, pr \in DetailPrompts}

\* a call of renderDetailedTables and the rows of its three tables
CallRenderDetailedTables ==
    /\ pc = "off"
    /\ call = NoCall
    /\ \E names \in DetailNames :
          \E r1 \in DetailResults(names[1]), r2 \in DetailResults(names[2]) :
              LET list == <<r1, r2>>
              IN  \E tools \in renderNamespacedTable(list, "ToolStats"),
                     prompts \in renderNamespacedTable(list, "PromptStats"),
                     resources \in renderNamespacedTable(list, "ResourceStats") :
                      /\ call' = [op |-> "renderDetailedTables", results |-> list]
                      /\ ret' = [op |-> "renderDetailedTables", tools |-> tools,
                                 prompts |-> prompts, resources |-> resources]
    /\ UNCHANGED <<pipeVars, unitVars, counterVars, held>>

FnInit ==
    /\ Off
    /\ CounterIdle
    /\ FnIdle

FnNext ==
    \/ CallResolveServerName
    \/ CallResolveServerEnv
    \/ CallLoadEnvFile
    \/ CallAdd
    \/ CallRenderDetailedTables

SpecFn == FnInit /\ [][FnNext]_vars

\* a relative reference that, resolved against the directory of the config,
\* names a place outside that directory
Escapes(ref, dir) ==
    /\ ~IsAbs(ref)
    /\ ~IsPrefix(Clean(dir).segs, Join(dir, ref).segs)

\* C8: the env resolution of a server rejects, with the error "outside the
\* config directory" and before opening any file, every relative envFile
\* that resolves outside configDir; a relative envFile that resolves inside
\* configDir is loaded; an absolute envFile is loaded with no confinement
\* check, also when it lies outside configDir.
C8_EnvFileConfined ==
    (call.op = "ResolveServerEnv" /\ call.srv.EnvFile # EmptyPath
        /\ call.configDir # EmptyPath) =>
        LET ref == call.srv.EnvFile
            target == IF IsAbs(ref) THEN ref ELSE Join(call.configDir, ref)
        IN  IF Escapes(ref, call.configDir)
            THEN /\ ret.err # Nil
                 /\ "outside the config directory" \in SeqToSet(ret.err.chain)
                 /\ ret.opened = <<>>
            ELSE /\ ret.opened = <<Locate(target)>>
                 /\ (ret.err = Nil) = (LoadEnvFile(target).err = Nil)
                 /\ ret.err = Nil =>
                       ret.env = MapOverlay(LoadEnvFile(target).vars, call.srv.Env)

\* C9: resolveServerName returns the configured name when it is non-empty;
\* otherwise the name the server reported when server info is present and
\* its name is non-empty; otherwise the sentinel "<unknown>".
C9_ResolveServerName ==
    call.op = "resolveServerName" =>
        ret.name = IF call.configuredName # "" THEN call.configuredName
                   ELSE IF call.serverInfo.present /\ call.serverInfo.Name # ""
                        THEN call.serverInfo.Name
                   ELSE "<unknown>"


(***************************************************************************)
(* pkg/config: the methods of a Config, called on a parsed config by a     *)
(* caller that may keep and change the map GetServers gave it.             *)
(***************************************************************************)
\* a caller changes a map it holds at most this many times
MaxMutations == 1

TypeInputs == {"", TransportStdio, TransportHTTP, TransportStreamableHTTP, "sse"}
URLInputs == {"http://localhost:9/mcp", "https://api.example.com/mcp", "localhost:3000/mcp",
              "ftp://files.example.com/mcp", "ws://localhost:3000/mcp", "http:///mcp",
              "/mcp", "://mcp"}

ServerFields(type, command, url) ==
    ServerConfig("", type, command, <<>>, url, EmptyMap, EmptyPath)

\* the server entries a payload may hold: null, and the combinations of
\* type, command and url
ServerInputs ==
    {NilServer}
    \cup {ServerFields(t, c, u) :
            t \in TypeInputs, c \in {"", "echo"},
            u \in {"", "http://localhost:9/mcp", "ftp://files.example.com/mcp",
                   "localhost:3000/mcp"}}
    \cup {ServerFields(TransportHTTP, "", u) : u \in URLInputs}

AuthInputs ==
    {NoAuth, [present |-> TRUE, ClientID |-> "", ClientSecret |-> ""],
     [present |-> TRUE, ClientID |-> "my-client", ClientSecret |-> ""]}
TLSInputs ==
    {NoTLS,
     [present |-> TRUE, InsecureSkipVerify |-> FALSE, CACertFile |-> "",
      ClientCertFile |-> "", ClientKeyFile |-> ""],
     [present |-> TRUE, InsecureSkipVerify |-> FALSE, CACertFile |-> "/path/to/ca.crt",
      ClientCertFile |-> "", ClientKeyFile |-> ""]}

\* entries with auth and tls blocks, on a valid and on an invalid server
SecuredInputs ==
    {[base EXCEPT !.Auth = auth, !.TLS = tls] :
        base \in {ServerFields("", "echo", ""), ServerFields("", "", "")},
        auth \in AuthInputs, tls \in TLSInputs}

\* the decoded payloads: mcpServers holds nothing or "a"; servers holds
\* nothing, an "a" that collides, or a "b" with auth and tls blocks
Payloads ==
    {Config(m, v) :
        m \in {EmptyMap} \cup {("a" :> x) : x \in ServerInputs},
        v \in {EmptyMap} \cup {("a" :> ServerFields("", "", "http://localhost:9/mcp"))}
              \cup {("b" :> y) : y \in SecuredInputs}}

\* config.ParseConfig on a payload
CallParseConfig ==
    /\ pc = "off"
    /\ call = NoCall
    /\ \E payload \in Payloads :
          /\ cfg' = ParseConfig([valid |-> TRUE, cfg |-> payload]).cfg
          /\ call' = [op |-> "ParseConfig", payload |-> payload]
          /\ ret' = [op |-> "ParseConfig"]
    /\ UNCHANGED <<pipeRest, unitVars, counterVars, held>>

\* cfg.InferDefaults(); times counts the calls in a row
CallInferDefaults ==
    /\ pc = "off"
    /\ call # NoCall
    /\ call.op = "InferDefaults" => call.times < 2
    /\ cfg' = InferDefaults(cfg)
    /\ call' = [op |-> "InferDefaults", before |-> cfg,
                first |-> IF call.op = "InferDefaults" THEN call.first ELSE cfg,
                times |-> IF call.op = "InferDefaults" THEN call.times + 1 ELSE 1]
    /\ ret' = [op |-> "InferDefaults"]
    /\ UNCHANGED <<pipeRest, unitVars, counterVars, held>>

\* cfg.Validate()
CallValidate ==
    /\ pc = "off"
    /\ call # NoCall
    /\ call' = [op |-> "Validate", before |-> cfg]
    /\ ret' = [op |-> "Validate", err |-> Validate(cfg)]
    /\ UNCHANGED <<pipeVars, unitVars, counterVars, held>>

\* cfg.Warnings()
CallWarnings ==
    /\ pc = "off"
    /\ call # NoCall
    /\ call' = [op |-> "Warnings", before |-> cfg]
    /\ ret' = [op |-> "Warnings", warnings |-> Warnings(cfg)]
    /\ UNCHANGED <<pipeVars, unitVars, counterVars, held>>

\* a GetServers that hands out the config's own map when the other is empty
GetServersContainerShared(c) ==
    IF DOMAIN c.Servers = {} THEN "MCPServers"
    ELSE IF DOMAIN c.MCPServers = {} THEN "Servers"
    ELSE "new"

\* the container GetServers returns: the map it makes
GetServersContainer(c) == "new"

\* cfg.GetServers(); the caller keeps the map, earlier is the map it held
CallGetServers ==
    /\ pc = "off"
    /\ call # NoCall
    /\ call' = [op |-> "GetServers", before |-> cfg, earlier |-> held]
    /\ ret' = [op |-> "GetServers", servers |-> GetServers(cfg)]
    /\ held' = [ref |-> GetServersContainer(cfg), map |-> GetServers(cfg), changes |-> 0,
                of |-> cfg, returned |-> GetServers(cfg)]
    /\ UNCHANGED <<pipeVars, unitVars, counterVars>>

\* the maps one change makes of a map: an entry added, deleted or replaced
Changed(m) ==
    {MapPut(m, "z", ServerFields(TransportStdio, "echo", ""))}
    \cup {[x \in (DOMAIN m) \ {k} |-> m[x]] : k \in DOMAIN m}
    \cup {MapPut(m, k, NilServer) : k \in DOMAIN m}

\* the caller adds, deletes or replaces an entry of the map it holds; a
\* container that is one of the config's maps changes with it
MutateReturned ==
    /\ pc = "off"
    /\ held.ref # "none"
    /\ held.changes < MaxMutations
    /\ \E m \in Changed(held.map) :
          /\ held' = [held EXCEPT !.map = m, !.changes = @ + 1]
          /\ cfg' = CASE held.ref = "MCPServers" -> [cfg EXCEPT !.MCPServers = m]
                      [] held.ref = "Servers" -> [cfg EXCEPT !.Servers = m]
                      [] OTHER -> cfg
    /\ call' = [op |-> "mutate", before |-> cfg]
    /\ ret' = [op |-> "mutate"]
    /\ UNCHANGED <<pipeRest, unitVars, counterVars>>

CfgInit ==
    /\ Off
    /\ CounterIdle
    /\ FnIdle

CfgNext ==
    \/ CallParseConfig
    \/ CallInferDefaults
    \/ CallValidate
    \/ CallWarnings
    \/ CallGetServers
    \/ MutateReturned

SpecCfg == CfgInit /\ [][CfgNext]_vars


\* a URL as it is written: the scheme before "://" and the host after it
AsWritten(rawURL) ==
    CASE rawURL = "http://localhost:9/mcp" -> [scheme |-> "http", host |-> "localhost:9"]
      [] rawURL = "https://api.example.com/mcp" -> [scheme |-> "https", host |-> "api.example.com"]
      [] rawURL = "localhost:3000/mcp" -> [scheme |-> "", host |-> "localhost:3000"]
      [] rawURL = "ftp://files.example.com/mcp" -> [scheme |-> "ftp", host |-> "files.example.com"]
      [] rawURL = "ws://localhost:3000/mcp" -> [scheme |-> "ws", host |-> "localhost:3000"]
      [] rawURL = "http:///mcp" -> [scheme |-> "http", host |-> ""]
      [] rawURL = "/mcp" -> [scheme |-> "", host |-> ""]
      [] rawURL = "://mcp" -> [scheme |-> "", host |-> "mcp"]

HTTPURL(rawURL) ==
    AsWritten(rawURL).scheme \in {"http", "https"} /\ AsWritten(rawURL).host # ""

\* a server Validate has to refuse: stdio without command, http without a
\* URL or with an invalid one, or no transport
InvalidServer(srv) ==
    /\ ~srv.isNil
    /\ \/ srv.Type = TransportStdio /\ srv.Command = ""
       \/ srv.Type = TransportHTTP /\ (srv.URL = "" \/ ~HTTPURL(srv.URL))
       \/ srv.Type = ""

\* the servers the error of Validate has a message for
Blamed(err) == {part[1] : part \in err.parts}

\* C11: Validate returns an error when the merged server set is empty and
\* when a server is stdio without a command, http with an empty or invalid
\* URL, or without a transport (it infers nothing: a command or a URL does
\* not help a server whose transport is unset); the error has a message for
\* every such server; and the Config is left as it was.
C11_ValidateRejects ==
    call.op = "Validate" =>
        LET merged == GetServers(call.before)
        IN  /\ DOMAIN merged = {} => ret.err # Nil
            /\ (\E k \in DOMAIN merged : InvalidServer(merged[k])) => ret.err # Nil
            /\ \A k \in DOMAIN merged : InvalidServer(merged[k]) => k \in Blamed(ret.err)
            /\ cfg = call.before

\* C11 witness: Validate on a config that InferDefaults has not seen, with
\* two servers to refuse, one of them with a command but no transport.
C11_Witness ==
    /\ call.op = "Validate"
    /\ Blamed(ret.err) = {"a", "b"}
    /\ GetServers(cfg)["a"].Type = "" /\ GetServers(cfg)["a"].Command # ""
    /\ InvalidServer(GetServers(cfg)["b"])

\* C12: for an http server with a non-empty URL, Validate accepts the URL
\* exactly when its scheme is http or https and its host is not empty.
C12_URLAccepted ==
    call.op = "Validate" =>
        LET merged == GetServers(call.before)
        IN  \A k \in DOMAIN merged :
                (~merged[k].isNil /\ merged[k].Type = TransportHTTP /\ merged[k].URL # "") =>
                    (k \notin Blamed(ret.err)) = HTTPURL(merged[k].URL)

\* C12 witness: Validate refused a URL with the http scheme and no host.
C12_Witness ==
    /\ call.op = "Validate"
    /\ "a" \in DOMAIN GetServers(cfg)
    /\ ~GetServers(cfg)["a"].isNil
    /\ GetServers(cfg)["a"].Type = TransportHTTP
    /\ GetServers(cfg)["a"].URL = "http:///mcp"
    /\ <<"a", "invalid url">> \in ret.err.parts


\* C13: InferDefaults is idempotent: a second run right after a first one
\* leaves every server, transport and every other field, as the first run
\* left it.
C13_InferDefaultsIdempotent ==
    (call.op = "InferDefaults" /\ call.times = 2) => cfg = call.before

\* C13 witness: the second of two runs, the first of which changed a server.
C13_Witness ==
    /\ call.op = "InferDefaults" /\ call.times = 2
    /\ call.first # call.before

\* the transport InferDefaults is to leave on a server
InferredType(srv) ==
    CASE srv.Type = TransportStreamableHTTP -> TransportHTTP
      [] srv.Type = "" -> IF srv.Command # "" THEN TransportStdio
                          ELSE IF srv.URL # "" THEN TransportHTTP
                          ELSE ""
      [] OTHER -> srv.Type

\* C14: after InferDefaults every server of the merged view has the alias
\* streamable-http replaced by http, an unset transport replaced by stdio
\* when there is a command, else by http when there is a URL, else left
\* unset, an explicit stdio or http left alone, and no other field changed.
C14_InferDefaultsEffect ==
    call.op = "InferDefaults" =>
        LET old == GetServers(call.before)
            new == GetServers(cfg)
        IN  /\ DOMAIN new = DOMAIN old
            /\ \A k \in DOMAIN old :
                  IF old[k].isNil THEN new[k] = old[k]
                  ELSE /\ new[k].Type = InferredType(old[k])
                       /\ [new[k] EXCEPT !.Type = old[k].Type] = old[k]

\* C14 witness: a server with a command and a URL and no transport has
\* become stdio.
C14_Witness ==
    /\ call.op = "InferDefaults"
    /\ "a" \in DOMAIN GetServers(call.before)
    /\ LET old == GetServers(call.before)["a"]
       IN  ~old.isNil /\ old.Type = "" /\ old.Command # "" /\ old.URL # ""
    /\ GetServers(cfg)["a"].Type = TransportStdio

\* C15: the merged view has the keys of both dialect maps; a name in both
\* has the whole mcpServers entry, a name in one map has that map's entry.
C15_MergedView ==
    call.op = "GetServers" =>
        LET c == call.before
        IN  /\ DOMAIN ret.servers = DOMAIN c.MCPServers \cup DOMAIN c.Servers
            /\ \A k \in DOMAIN c.MCPServers : ret.servers[k] = c.MCPServers[k]
            /\ \A k \in (DOMAIN c.Servers) \ DOMAIN c.MCPServers : ret.servers[k] = c.Servers[k]

\* C15 witness: a name that the two maps define differently.
C15_Witness ==
    /\ call.op = "GetServers"
    /\ DOMAIN cfg.MCPServers \cap DOMAIN cfg.Servers # {}
    /\ \E k \in DOMAIN cfg.MCPServers \cap DOMAIN cfg.Servers :
          cfg.MCPServers[k] # cfg.Servers[k] /\ ret.servers[k] = cfg.MCPServers[k]

EnvFileOf(srv, dir) == IF IsAbs(srv.EnvFile) THEN srv.EnvFile ELSE Join(dir, srv.EnvFile)

\* C17: the map the env resolution returns has the keys of the env file and
\* of the inline map; a key of both has the inline value, a key of one source
\* has that source's value; without an envFile the result is the inline map.
C17_EnvMerge ==
    (call.op = "ResolveServerEnv" /\ ret.err = Nil) =>
        LET inline == call.srv.Env
            file == IF call.srv.EnvFile = EmptyPath THEN EmptyMap
                    ELSE LoadEnvFile(EnvFileOf(call.srv, call.configDir)).vars
        IN  /\ DOMAIN ret.env = DOMAIN file \cup DOMAIN inline
            /\ \A k \in DOMAIN inline : ret.env[k] = inline[k]
            /\ \A k \in (DOMAIN file) \ DOMAIN inline : ret.env[k] = file[k]
            /\ call.srv.EnvFile = EmptyPath => ret.env = inline

\* C17 witness: the file and the inline map both set S, to different values,
\* and the file alone sets F.
C17_Witness ==
    /\ call.op = "ResolveServerEnv" /\ ret.err = Nil
    /\ call.srv.EnvFile # EmptyPath
    /\ DOMAIN call.srv.Env = {<<"S">>}
    /\ DOMAIN ret.env = {<<"S">>, <<"F">>}
    /\ ret.env[<<"S">>] = <<"y">> /\ ret.env[<<"F">>] = <<"f">>

\* a line without the white space around it
Bare(line) ==
    LET inked == {i \in 1..Len(line) : ~IsSpace(line[i])}
    IN  IF inked = {} THEN <<>>
        ELSE SubSeq(line, CHOOSE i \in inked : \A j \in inked : i <= j,
                          CHOOSE i \in inked : \A j \in inked : i >= j)
Ignored(line) == Bare(line) = <<>> \/ Bare(line)[1] = "#"
\* what stands before the first '=' of a line, and what stands after it
KeyOf(line) ==
    LET t == Bare(line)
        n == Cardinality({i \in 1..Len(t) : \A j \in 1..i : t[j] # "="})
    IN  Bare(SubSeq(t, 1, n))
Unquoted(v) ==
    IF Len(v) >= 2 /\ v[1] = v[Len(v)] /\ v[1] \in {"\"", "'"}
    THEN SubSeq(v, 2, Len(v) - 1) ELSE v
ValueOf(line) ==
    LET t == Bare(line)
        n == Cardinality({i \in 1..Len(t) : \A j \in 1..i : t[j] # "="})
    IN  Unquoted(Bare(SubSeq(t, n + 2, Len(t))))
Malformed(line) ==
    /\ ~Ignored(line)
    /\ \/ \A i \in 1..Len(line) : line[i] # "="
       \/ KeyOf(line) = <<>>

\* C18: LoadEnvFile ignores blank lines and lines starting with '#', splits
\* every other line at its first '=', strips one pair of matching quotes
\* around the value, and returns the map of keys to values, a later line of a
\* key replacing an earlier one; when a line that is not ignored has no '='
\* or an empty key, it returns no map and an error with the number, counted
\* from 1 over all lines, of the first such line.  Lines, keys and values are
\* taken without the white space around them.
C18_LoadEnvFile ==
    call.op = "LoadEnvFile" =>
        LET content == call.content
            bad == {i \in 1..Len(content) : Malformed(content[i])}
            kept == {i \in 1..Len(content) : ~Ignored(content[i])}
        IN  IF bad # {}
            THEN /\ ret.err # Nil
                 /\ ret.err.n = CHOOSE i \in bad : \A j \in bad : i <= j
                 /\ ret.vars = EmptyMap
            ELSE /\ ret.err = Nil
                 /\ DOMAIN ret.vars = {KeyOf(content[i]) : i \in kept}
                 /\ \A i \in kept :
                       (\A j \in kept : j > i => KeyOf(content[j]) # KeyOf(content[i]))
                           => ret.vars[KeyOf(content[i])] = ValueOf(content[i])

\* C18 witness: an ignored line followed by a line without '=', reported as
\* line 2.
C18_Witness ==
    /\ call.op = "LoadEnvFile"
    /\ Len(call.content) = 2
    /\ Ignored(call.content[1])
    /\ call.content[2] = <<"N", "O">>
    /\ ret.err # Nil /\ ret.err.n = 2

RECURSIVE SumOver(_, _)
\* the sum of the given fields of a statistics record
SumOver(rec, fields) ==
    IF fields = {} THEN 0
    ELSE LET f == CHOOSE x \in fields : TRUE
         IN  rec[f] + SumOver(rec, fields \ {f})
TotalIsSum(kind, rec) == rec.TotalTokens = SumOver(rec, SubFields(kind))

\* C19: a.Add(b) on ToolTokens, PromptTokens and ResourceTokens leaves in
\* every numeric sub-field of a and in a's total the sum of a's and b's
\* values, leaves a's name and all of b as they were; so when the total is
\* the sum of the sub-fields in both operands, it is so in a afterwards.
C19_AddSums ==
    call.op = "Add" =>
        /\ \A f \in SubFields(call.kind) \cup {"TotalTokens"} :
              ret.a[f] = call.a[f] + call.b[f]
        /\ ret.a.Name = call.a.Name
        /\ ret.b = call.b
        /\ (TotalIsSum(call.kind, call.a) /\ TotalIsSum(call.kind, call.b))
              => TotalIsSum(call.kind, ret.a)

\* C19 witness: two tool statistics with annotations, totals the sums of
\* their sub-fields, added up.
C19_Witness ==
    /\ call.op = "Add" /\ call.kind = "tool"
    /\ call.a.AnnotationsTokens > 0 /\ call.b.AnnotationsTokens > 0
    /\ TotalIsSum("tool", call.a) /\ TotalIsSum("tool", call.b)
    /\ ret.a.TotalTokens = call.a.TotalTokens + call.b.TotalTokens
    /\ ret.a.Name = "a"


\* a server sets a client id or a client secret
SetsCredential(srv) ==
    ~srv.isNil /\ srv.Auth.present /\ (srv.Auth.ClientID # "" \/ srv.Auth.ClientSecret # "")
\* a server sets skip-verify, a CA certificate, a client certificate or a
\* client key
SetsTLS(srv) ==
    /\ ~srv.isNil /\ srv.TLS.present
    /\ \/ srv.TLS.InsecureSkipVerify
       \/ srv.TLS.CACertFile # ""
       \/ srv.TLS.ClientCertFile # ""
       \/ srv.TLS.ClientKeyFile # ""
\* the messages of a list of warnings that are about one server
About(warnings, name) == {w \in warnings : w[1] = name}
\* a Config without its auth and TLS blocks
WithoutBlocks(c) ==
    LET bare(srv) == IF srv.isNil THEN srv ELSE [srv EXCEPT !.Auth = NoAuth, !.TLS = NoTLS]
    IN  Config([k \in DOMAIN c.MCPServers |-> bare(c.MCPServers[k])],
               [k \in DOMAIN c.Servers |-> bare(c.Servers[k])])

\* C20, as stated: Warnings returns one message per server that sets a
\* credential field or a TLS field, none for a server that sets neither, and
\* the fields do not change whether Validate succeeds.
C20_Original ==
    call.op = "Warnings" =>
        LET merged == GetServers(call.before)
        IN  /\ \A k \in DOMAIN merged :
                  Cardinality(About(ret.warnings, k)) =
                      IF SetsCredential(merged[k]) \/ SetsTLS(merged[k]) THEN 1 ELSE 0
            /\ (Validate(call.before) = Nil) = (Validate(WithoutBlocks(call.before)) = Nil)

\* C20, amended: Warnings returns for every server one message when it sets
\* a credential field and one more when it sets a TLS field, so two for a
\* server that sets both and none for a server whose blocks are absent or
\* empty; and the fields do not change whether Validate succeeds.
C20_WarningsPerBlock ==
    call.op = "Warnings" =>
        LET merged == GetServers(call.before)
        IN  /\ \A w \in ret.warnings : w[1] \in DOMAIN merged
            /\ \A k \in DOMAIN merged :
                  Cardinality(About(ret.warnings, k)) =
                      (IF SetsCredential(merged[k]) THEN 1 ELSE 0)
                      + (IF SetsTLS(merged[k]) THEN 1 ELSE 0)
            /\ (Validate(call.before) = Nil) = (Validate(WithoutBlocks(call.before)) = Nil)
            /\ cfg = call.before

\* C20 witness: a valid server that sets a client id and a CA certificate,
\* with its two messages.
C20_Witness ==
    /\ call.op = "Warnings"
    /\ "b" \in DOMAIN GetServers(cfg)
    /\ SetsCredential(GetServers(cfg)["b"]) /\ SetsTLS(GetServers(cfg)["b"])
    /\ Cardinality(About(ret.warnings, "b")) = 2
    /\ Validate(cfg) = Nil


\* C21: in the detail tables of several servers every item stands under
\* <server name>__<component name>, and two items of one kind that come from
\* different servers never stand under the same namespaced identifier.
C21_NamespacedUnique ==
    call.op = "renderDetailedTables" =>
        \A rows \in {ret.tools, ret.prompts, ret.resources} :
            /\ \A i \in 1..Len(rows) :
                  rows[i].Name = rows[i].Server \o "__" \o rows[i].Stats.Name
            /\ \A i, j \in 1..Len(rows) :
                  rows[i].Server # rows[j].Server => rows[i].Name # rows[j].Name


\* the units that have produced their ServerResult
Produced == {s \in Keys : wpc[s] \in {"append", "locked", "done"}}

\* the name a server reported in its handshake, "" when there was none
ReportedName(s) ==
    IF outcome[s] \in {"ok", "listfail"} /\ World(s).ServerInfo.present
    THEN World(s).ServerInfo.Name ELSE ""

\* the display name of a server: its key, else the reported name, else the
\* sentinel
DisplayName(key, reported) ==
    IF key # "" THEN key ELSE IF reported # "" THEN reported ELSE "<unknown>"

\* C22: every ServerResult produced for a server, whether it succeeded or
\* failed at the connection or at the handshake, has as Name the display
\* name of the server: its map key, under the empty key the name the server
\* reported, and the sentinel when that is empty too; no result has an empty
\* Name.
C22_ResultName ==
    \A s \in Produced :
        /\ wres[s].Name = DisplayName(s, ReportedName(s))
        /\ wres[s].Name # ""


\* every numeric field of a category aggregate is 0
AllZero(kind, rec) == \A f \in SubFields(kind) \cup {"TotalTokens"} : rec[f] = 0

\* a failed result: an error and nothing else
FailedResult(r) ==
    /\ r.Error # Nil
    /\ r.InstructionTokens = 0
    /\ AllZero("tool", r.TotalToolTokens)
    /\ AllZero("prompt", r.TotalPromptTokens)
    /\ AllZero("resource", r.TotalResourceTokens)
    /\ r.ToolStats = <<>> /\ r.PromptStats = <<>> /\ r.ResourceStats = <<>>

\* the listing calls among the calls of a unit
ListingCalls(s) ==
    {i \in 1..Len(ops[s]) :
        ops[s][i] \in {"ListTools", "ListPrompts", "ListResources", "ListResourceTemplates"}}

\* C23: every ServerResult is either failed (an error, no instruction
\* tokens, all-zero aggregates, empty item lists) or usable (no error, the
\* instruction tokens counted, every category processed); after a successful
\* connection it is failed exactly when the session has no initialize
\* result, and then no listing call is made.
C23_FailedOrUsable ==
    \A s \in Produced :
        /\ \/ FailedResult(wres[s])
           \/ /\ wres[s].Error = Nil
              /\ wres[s].InstructionTokens = Encode(World(s).Instructions)
              /\ {"ListTools", "ListPrompts", "ListResources"} \subseteq SeqToSet(ops[s])
              /\ wres[s].TotalToolTokens.Name = "TOTAL"
              /\ wres[s].TotalPromptTokens.Name = "TOTAL"
              /\ wres[s].TotalResourceTokens.Name = "TOTAL"
        /\ conn[s] # "none" => ((wres[s].Error # Nil) <=> outcome[s] = "noinit")
        /\ (conn[s] # "none" /\ outcome[s] = "noinit") => ListingCalls(s) = {}

\* C23 witness: a connected session without initialize result gave a failed
\* result, and a server beside it a usable one with counted instructions.
C23_Witness ==
    \E s, t \in Produced :
        /\ outcome[s] = "noinit" /\ conn[s] = "closed"
        /\ FailedResult(wres[s])
        /\ ops[s] = <<"Connect", "InitializeResult", "Close">>
        /\ outcome[t] = "ok" /\ wres[t].Error = Nil /\ wres[t].InstructionTokens > 0


\* the units whose session was initialized and analyzed
Analyzed == {s \in Produced : conn[s] # "none" /\ outcome[s] # "noinit"}

\* C24: when the listing of a category fails for a server, because the
\* category is not supported or because of an error after items of the
\* category were listed, the category ends with an all-zero aggregate and no
\* items, the other categories are still enumerated, and the result has no
\* error.  Resources and resource templates are the one category of
\* TotalResourceTokens and ResourceStats.
C24_ListingFailureDegrades ==
    \A s \in Analyzed :
        LET session == Session(s, outcome[s])
            r == wres[s]
        IN  /\ session.tools.err => AllZero("tool", r.TotalToolTokens) /\ r.ToolStats = <<>>
            /\ session.prompts.err =>
                  AllZero("prompt", r.TotalPromptTokens) /\ r.PromptStats = <<>>
            /\ (session.resources.err \/ session.templates.err) =>
                  AllZero("resource", r.TotalResourceTokens) /\ r.ResourceStats = <<>>
            /\ {"ListTools", "ListPrompts", "ListResources"} \subseteq SeqToSet(ops[s])
            /\ r.Error = Nil


\* the artifacts of a category that the listings of a session returned
ListedTools(session) == IF session.tools.err THEN <<>> ELSE session.tools.items
ListedPrompts(session) == IF session.prompts.err THEN <<>> ELSE session.prompts.items
ListedResources(session) ==
    IF session.resources.err THEN <<>>
    ELSE session.resources.items
         \o (IF session.templates.err THEN <<>> ELSE session.templates.items)

\* the statistics of the artifacts whose analysis succeeds, in their order
StatsOfTools(items) ==
    LET good == SelectSeq(items, LAMBDA x : AnalyzeTool(x).err = Nil)
    IN  [i \in 1..Len(good) |-> AnalyzeTool(good[i]).stats]
StatsOfPrompts(items) ==
    LET good == SelectSeq(items, LAMBDA x : AnalyzePrompt(x).err = Nil)
    IN  [i \in 1..Len(good) |-> AnalyzePrompt(good[i]).stats]
StatsOfResources(items) ==
    LET good == SelectSeq(items, LAMBDA x : AnalyzeResource(x).err = Nil)
    IN  [i \in 1..Len(good) |-> AnalyzeResource(good[i]).stats]

RECURSIVE SumField(_, _)
\* the sum of one field over a list of statistics
SumField(items, f) == IF items = <<>> THEN 0 ELSE Head(items)[f] + SumField(Tail(items), f)

\* every numeric field of the aggregate is the sum of the field over the items
AggregateOf(kind, total, items) ==
    /\ \A f \in SubFields(kind) \cup {"TotalTokens"} : total[f] = SumField(items, f)
    /\ TotalIsSum(kind, total)

HoldsResults(s) == mu.held /\ mu.by = s
HoldsCounter(s) == cmu = UnitNo(s)
AllAppended ==
    /\ \A s \in Keys : wpc[s] = "done"
    /\ Len(results) = Cardinality(Keys)
NoLockAcrossCalls ==
    \A s \in Keys : (ops'[s] # ops[s]) => (~HoldsResults(s) /\ ~HoldsCounter(s))
NothingAppended == results' = results /\ finished' = finished

\* C27: connectAndAnalyzeAll returns, with as many servers as the limit
\* admits and with more, whenever every call on a connection returns; it
\* returns only when every unit has appended its result; no unit holds the
\* lock of the result list and the lock of the TokenCounter together, and
\* none holds either during a connect or a call on its session; nothing is
\* appended after the return.
C27_Terminates ==
    /\ (pc = "fanout") ~> (pc = "report")
    /\ [](pc = "report" => AllAppended)
    /\ [](pc = "fanout" => \A s \in Keys : ~(HoldsResults(s) /\ HoldsCounter(s)))
    /\ [][pc = "fanout" => NoLockAcrossCalls]_vars
    /\ [][(pc \in {"report", "exit"}) => NothingAppended]_vars

\* C27 witness: connectAndAnalyzeAll has returned on a config with more
\* servers than the limit, every result appended.
C27_Witness ==
    /\ pc = "report"
    /\ Cardinality(Keys) > maxConcurrentConnections
    /\ Len(results) = Cardinality(Keys)

\* C27 second witness: a unit waits for the lock of the TokenCounter that
\* another unit holds.
C27_Contended ==
    /\ pc = "fanout"
    /\ \E s, t \in Keys : wpc[s] = "count" /\ wpc[t] = "counting"


\* the places of the call c among the calls of s
Places(s, c) == {i \in 1..Len(ops[s]) : ops[s][i] = c}
HasSession(s) == outcome[s] \in {"noinit", "listfail", "ok"}

\* C28: a session that was connected is closed exactly once, after a
\* handshake without an initialize result as after an analysis; it is closed
\* before the result of its server is appended, and no call is made on it
\* after the close; a server whose connection failed has no session and no
\* close.
C28_ClosedOnce ==
    \A s \in Keys :
        /\ Cardinality(Places(s, "Close")) <= 1
        /\ \A i \in Places(s, "Close") : i = Len(ops[s]) /\ conn[s] = "closed"
        /\ (s \in Produced /\ HasSession(s)) =>
               /\ Cardinality(Places(s, "Close")) = 1
               /\ conn[s] = "closed"
        /\ (s \in Produced /\ ~HasSession(s)) =>
               /\ conn[s] = "none"
               /\ Places(s, "Close") = {}
               /\ \A i \in 1..Len(ops[s]) : ops[s][i] = "Connect"

\* C28 witness: of two servers whose results are appended, one had a session
\* without an initialize result, closed after the one call on it, and the
\* other failed to connect.
C28_Witness ==
    \E s, t \in Keys :
        /\ wpc[s] = "done" /\ wpc[t] = "done"
        /\ outcome[s] = "noinit" /\ outcome[t] = "connfail"
        /\ ops[s] = <<"Connect", "InitializeResult", "Close">>
        /\ ops[t] = <<"Connect">>


\* a server NewClientFromConfig can build a client for
Connectable(srv) ==
    /\ ~srv.isNil
    /\ srv.Type \in {TransportStdio, TransportHTTP}
    /\ srv.Type = TransportStdio => srv.Command # ""
    /\ srv.Type = TransportHTTP => (srv.URL # "" /\ HTTPURL(srv.URL))

\* C29: when Validate returns no error on a Config that InferDefaults has
\* been through, every server of the merged view is non-nil, is stdio with a
\* command or http with a URL of scheme http or https and a host, and
\* NewClientFromConfig does not refuse it as nil or as of an unsupported
\* transport.
C29_ValidatedConnectable ==
    (call.op = "Validate" /\ ret.err = Nil /\ InferDefaults(call.before) = call.before) =>
        \A k \in DOMAIN GetServers(cfg) :
            /\ Connectable(GetServers(cfg)[k])
            /\ ClientConfigError(GetServers(cfg)[k], configDir)
                   \notin {NewError("server configuration is nil"),
                           NewError("unsupported transport type: %s")}

\* C29 witness: Validate returned no error on a Config whose merged view has
\* an http server over an entry of the other map that has no transport.
C29_Witness ==
    /\ call.op = "Validate" /\ ret.err = Nil
    /\ InferDefaults(cfg) = cfg
    /\ "a" \in DOMAIN cfg.MCPServers /\ "a" \in DOMAIN cfg.Servers
    /\ cfg.Servers["a"].Type = ""
    /\ GetServers(cfg)["a"].Type = TransportHTTP


\* the run was given a command for the stdio transport and no config file,
\* and loadOrBuildConfig has been called
BuiltFromCommand ==
    /\ flags.configFile = EmptyPath
    /\ flags.transport = "stdio"
    /\ flags.command # <<>>
    /\ \E i \in 1..Len(steps) : steps[i] = "loadOrBuildConfig"

\* C30: for the stdio transport and a non-empty command flag, one of
\* whitespace only included, buildConfigFromFlags returns an error or a
\* Config whose one server, under the empty key, has a non-empty Command;
\* it does not end in an index out of range.
C30_BuildConfigTotal ==
    BuiltFromCommand =>
        /\ pc # "panic"
        /\ \/ cfg = NoConfig /\ retErr # Nil
           \/ /\ DOMAIN GetServers(cfg) = {""}
              /\ GetServers(cfg)[""].Command # ""

====
